---- MODULE Spec2Model ----
(***************************************************************************)
(* Verification model of the media-ingestion engine:                       *)
(*   - utils/resource_manager.py   ResourceManager                         *)
(*   - utils/result_processor.py   ResultProcessor.process_and_send        *)
(*   - utils/message_sender.py     MessageSender                           *)
(*   - main.py                     VideoParserPlugin.auto_parse            *)
(*   - core/download_manager.py    DownloadManager                         *)
(*   - core/downloader/handler/*   per-group fallback, range downloader    *)
(* Each component has its own specification (SpecRM, SpecSend, SpecDM,     *)
(* SpecFB, SpecRange); the variables of the other components stay idle.    *)
(***************************************************************************)
EXTENDS Integers, Sequences, FiniteSets, TLC

(***************************************************************************)
(* Bounds of the model.                                                    *)
(***************************************************************************)
\* number of distinct non-empty file paths handed to a ResourceManager
MaxPaths == 2
\* number of links of one request
MaxLinks == 2
\* how many cleanup_all calls in a row are explored
MaxCleanupAllCalls == 3
\* number of video URL groups / image URL groups of one post
MaxVideos == 2
MaxImages == 1
\* number of URLs of one URL group in the fallback loops
MaxGroupLen == 3
\* size in bytes of the resource fetched by the range downloader
MaxFileSize == 3
\* how far below 0 and above the maximum the configured thresholds range
MaxThresholdExcess == 2
\* number of tokens of a URL handed to detect_media_type
MaxUrlLen == 4
\* image groups of a post and max_concurrent_downloads in the scheduling of
\* the downloads of one request
MaxParImages == 2
MaxConcurrent == 2
\* number of records handed to process_metadata_list
MaxRecords == 3
\* number of concurrent requests for the same media id and index
MaxRequests == 3
\* length of a URL path in characters
MaxPathLen == 5
\* number of backup URLs of one image
MaxBackupUrls == 3
\* number of registered parsers
MaxParsers == 3
\* number of words of a text
MaxTextLinks == 2
\* number of images of a gallery
MaxGalleryImages == 3
\* items of one gathered download, and concurrent parse calls
MaxBatchItems == 2
MaxParseCalls == 2
\* number of parser names
MaxNames == 2

VARIABLES
    \* ---- ResourceManager (utils/resource_manager.py) ----
    rm_temp,      \* self._temp_files
    rm_cache,     \* self._cache_files
    rm_cleaned,   \* self._cleaned
    disk,         \* paths that exist on the file system
    rm_scope,     \* "idle" | "in" | "exited": position of the with-scope
    rm_hist,      \* observations of the calls made so far (see RMHist0)
    \* ---- delivery of one request (result_processor.py, message_sender.py,
    \*      main.py auto_parse) ----
    s_pc,         \* position in process_and_send / auto_parse
    s_cfg,        \* [flow, pack]: which caller, is_auto_pack
    s_links,      \* link_metadata / all_link_nodes of the parse result
    s_idx,        \* link_idx of the running send loop
    s_obs,        \* observations: what was sent, delivered, unlinked too early
    \* ---- DownloadManager.process_metadata (core/download_manager.py) ----
    dm_pc,        \* position in process_metadata
    dm_cfg,       \* fields of the DownloadManager set by __init__
    dm_md,        \* the metadata dict of the post (mutated and returned)
    dm_loc,       \* locals that live across the awaits, branch taken
    dm_disk,      \* files written by the downloads of this call
    dm_started,   \* target paths of the downloads that were started
    \* ---- fallback over one URL group (download_manager.py
    \*      _download_one_image, normal_video.py download_one) ----
    fb_pc,        \* position in the handler
    fb_kind,      \* "image": _download_one_image, "video": download_one
    fb_group,     \* the URL group: what an attempt on each URL does
    fb_i,         \* index of the URL the loop is at
    fb_attempts,  \* indexes of the URLs attempted so far, in order
    fb_report,    \* what the handler reports for the group
    \* ---- range downloader (core/downloader/handler/range_video.py) ----
    r_pc,         \* position in download_video_to_cache
    r_in,         \* the resource's size and the call's chunk_size, max_concurrent
    r_chunk,      \* per chunk_idx: task state and the data it got
    r_file,       \* the cache file: does it exist, its bytes
    r_plain,      \* number of calls of the plain streamer (normal_download)
    r_result,     \* how the call ended
    \* ---- large-media threshold (config_manager.py, download_manager.py
    \*      __init__, parsers/base_parser.py __init__) ----
    cf_in,        \* the configured value and ConfigManager's validate flag
    cf_out,       \* per class: was it constructed, the threshold it stored
    \* ---- detect_media_type (core/downloader/router.py) ----
    u_url,        \* the URL, a sequence of tokens
    u_out,        \* the types returned by the calls made so far
    \* ---- scheduling of the downloads of one process_metadata call
    \*      (download_manager.py, normal_video.py, base_parser.py) ----
    p_pc,         \* position of process_metadata among its awaits
    p_cfg,        \* branch taken, max_concurrent_downloads, size of the post
    p_st,         \* per media item (videos, then images): state of its task
    \* ---- process_metadata_list (core/download_manager.py) ----
    ml_pc,        \* position in process_metadata_list
    ml_in,        \* per input record: what process_metadata does with it
    ml_out,       \* processed_metadata
    \* ---- validation of the configuration (core/config_manager.py) ----
    vc_config,    \* the configuration dict, by classes of values
    vc_result,    \* "raised" (ConfigurationError) or "parsed"
    \* ---- platform parsers (parsers/douyin.py, parsers/kuaishou.py, core/parser/platform/xiaoheihe.py) ----
    pr_in,        \* the parser called and what the page gives
    pr_out,       \* how parse ended: raise, None or a record
    \* ---- two requests, one cache file ----
    cc_file,      \* the shared cache file: "absent", "complete" or "truncated"
    cc_pc,        \* request -> where it stands
    cc_sent,      \* request -> state of the file when its node was sent
    \* ---- _generate_media_id ----
    gm_url,       \* the URL handed to _generate_media_id
    gm_id,        \* the media id it returned
    \* ---- download_image_to_cache ----
    ic_in,        \* the downloaded file and how ffmpeg and os.remove end
    ic_fs,        \* extensions of the files present under the base name
    ic_out,       \* what download_image_to_cache returned and did
    \* ---- temp files of an image download ----
    tf_in,        \* primary result and number of backup URLs
    tf_pc,        \* where _retry_download_with_backup_urls stands
    tf_i,         \* the backup URL being tried
    tf_temp_file, \* the temp file _download_image_to_file returned
    tf_disk,      \* temp files on disk
    tf_created,   \* temp files created so far
    tf_promoted,  \* temp files whose content was written into the cache
    tf_unlink_raised,\* temp files whose os.unlink raised
    tf_cleanup,   \* temp_files_to_cleanup
    \* ---- ParserFactory.create_parsers ----
    pf_in,        \* enable_<name> settings and whether each constructor succeeds
    pf_out,       \* what create_parsers returned or raised
    \* ---- extract_links ----
    el_in,        \* the parser and the text handed to extract_links
    el_out,       \* the list extract_links returned
    \* ---- parse of an image gallery ----
    pg_in,        \* the parser and the number of images of the gallery
    pg_pc,        \* where parse stands
    pg_idx,       \* the image being downloaded
    pg_disk,      \* downloaded files on disk
    pg_created,   \* files the call downloaded
    pg_downloaded_files,\* downloaded_files
    pg_image_files,\* image_files
    pg_unlink_raised,\* files whose os.unlink raised
    pg_result,    \* how parse ended
    \* ---- termination of the gathered downloads ----
    td_in,        \* items per call, permits of the download and of the parser semaphore
    td_pc,        \* parse call -> where it stands
    td_task,      \* parse call -> item -> state of its task
    td_permits,   \* parse call -> permits of its download semaphore in use
    td_results,   \* parse call -> items whose task returned a result
    \* ---- ParserRegistry ----
    reg_instance, \* ParserRegistry._instance is set
    reg_registry, \* _registry of the instance
    reg_map,      \* the map the specification describes
    reg_got       \* the dict the last get_all returned, as the caller left it

rmVars == <<rm_temp, rm_cache, rm_cleaned, disk, rm_scope, rm_hist>>
sVars == <<s_pc, s_cfg, s_links, s_idx, s_obs>>
dmVars == <<dm_pc, dm_cfg, dm_md, dm_loc, dm_disk, dm_started>>

fbVars == <<fb_pc, fb_kind, fb_group, fb_i, fb_attempts, fb_report>>

rVars == <<r_pc, r_in, r_chunk, r_file, r_plain, r_result>>

cfVars == <<cf_in, cf_out>>

uVars == <<u_url, u_out>>

pVars == <<p_pc, p_cfg, p_st>>

mlVars == <<ml_pc, ml_in, ml_out>>

vcVars == <<vc_config, vc_result>>

prVars == <<pr_in, pr_out>>

ccVars == <<cc_file, cc_pc, cc_sent>>

gmVars == <<gm_url, gm_id>>

icVars == <<ic_in, ic_fs, ic_out>>

tfVars == <<tf_in, tf_pc, tf_i, tf_temp_file, tf_disk, tf_created, tf_promoted, tf_unlink_raised, tf_cleanup>>

pfVars == <<pf_in, pf_out>>

elVars == <<el_in, el_out>>

pgVars == <<pg_in, pg_pc, pg_idx, pg_disk, pg_created, pg_downloaded_files, pg_image_files, pg_unlink_raised, pg_result>>

tdVars == <<td_in, td_pc, td_task, td_permits, td_results>>

regVars == <<reg_instance, reg_registry, reg_map, reg_got>>

\* the variables of the other components, for each component
notRM == <<sVars, dmVars, fbVars, rVars, cfVars, uVars, pVars, mlVars, vcVars, prVars, ccVars, gmVars, icVars, tfVars, pfVars, elVars, pgVars, tdVars, regVars>>
notSend == <<dmVars, fbVars, rVars, cfVars, uVars, pVars, mlVars, vcVars, prVars, ccVars, gmVars, icVars, tfVars, pfVars, elVars, pgVars, tdVars, regVars>>
notDM == <<rmVars, sVars, fbVars, rVars, cfVars, uVars, pVars, mlVars, vcVars, prVars, ccVars, gmVars, icVars, tfVars, pfVars, elVars, pgVars, tdVars, regVars>>
notFB == <<rmVars, sVars, dmVars, rVars, cfVars, uVars, pVars, mlVars, vcVars, prVars, ccVars, gmVars, icVars, tfVars, pfVars, elVars, pgVars, tdVars, regVars>>
notRange == <<rmVars, sVars, dmVars, fbVars, cfVars, uVars, pVars, mlVars, vcVars, prVars, ccVars, gmVars, icVars, tfVars, pfVars, elVars, pgVars, tdVars, regVars>>
notCfg == <<rmVars, sVars, dmVars, fbVars, rVars, uVars, pVars, mlVars, vcVars, prVars, ccVars, gmVars, icVars, tfVars, pfVars, elVars, pgVars, tdVars, regVars>>
notUrl == <<rmVars, sVars, dmVars, fbVars, rVars, cfVars, pVars, mlVars, vcVars, prVars, ccVars, gmVars, icVars, tfVars, pfVars, elVars, pgVars, tdVars, regVars>>
notPar == <<rmVars, sVars, dmVars, fbVars, rVars, cfVars, uVars, mlVars, vcVars, prVars, ccVars, gmVars, icVars, tfVars, pfVars, elVars, pgVars, tdVars, regVars>>
notML == <<rmVars, sVars, dmVars, fbVars, rVars, cfVars, uVars, pVars, vcVars, prVars, ccVars, gmVars, icVars, tfVars, pfVars, elVars, pgVars, tdVars, regVars>>
notVC == <<rmVars, sVars, dmVars, fbVars, rVars, cfVars, uVars, pVars, mlVars, prVars, ccVars, gmVars, icVars, tfVars, pfVars, elVars, pgVars, tdVars, regVars>>
notPR == <<rmVars, sVars, dmVars, fbVars, rVars, cfVars, uVars, pVars, mlVars, vcVars, ccVars, gmVars, icVars, tfVars, pfVars, elVars, pgVars, tdVars, regVars>>
notCC == <<rmVars, sVars, dmVars, fbVars, rVars, cfVars, uVars, pVars, mlVars, vcVars, prVars, gmVars, icVars, tfVars, pfVars, elVars, pgVars, tdVars, regVars>>
notGM == <<rmVars, sVars, dmVars, fbVars, rVars, cfVars, uVars, pVars, mlVars, vcVars, prVars, ccVars, icVars, tfVars, pfVars, elVars, pgVars, tdVars, regVars>>
notIC == <<rmVars, sVars, dmVars, fbVars, rVars, cfVars, uVars, pVars, mlVars, vcVars, prVars, ccVars, gmVars, tfVars, pfVars, elVars, pgVars, tdVars, regVars>>
notTF == <<rmVars, sVars, dmVars, fbVars, rVars, cfVars, uVars, pVars, mlVars, vcVars, prVars, ccVars, gmVars, icVars, pfVars, elVars, pgVars, tdVars, regVars>>
notPF == <<rmVars, sVars, dmVars, fbVars, rVars, cfVars, uVars, pVars, mlVars, vcVars, prVars, ccVars, gmVars, icVars, tfVars, elVars, pgVars, tdVars, regVars>>
notEL == <<rmVars, sVars, dmVars, fbVars, rVars, cfVars, uVars, pVars, mlVars, vcVars, prVars, ccVars, gmVars, icVars, tfVars, pfVars, pgVars, tdVars, regVars>>
notPG == <<rmVars, sVars, dmVars, fbVars, rVars, cfVars, uVars, pVars, mlVars, vcVars, prVars, ccVars, gmVars, icVars, tfVars, pfVars, elVars, tdVars, regVars>>
notTD == <<rmVars, sVars, dmVars, fbVars, rVars, cfVars, uVars, pVars, mlVars, vcVars, prVars, ccVars, gmVars, icVars, tfVars, pfVars, elVars, pgVars, regVars>>
notReg == <<rmVars, sVars, dmVars, fbVars, rVars, cfVars, uVars, pVars, mlVars, vcVars, prVars, ccVars, gmVars, icVars, tfVars, pfVars, elVars, pgVars, tdVars>>

vars == <<rm_temp, rm_cache, rm_cleaned, disk, rm_scope, rm_hist,
          s_pc, s_cfg, s_links, s_idx, s_obs,
          dm_pc, dm_cfg, dm_md, dm_loc, dm_disk, dm_started,
          fb_pc, fb_kind, fb_group, fb_i, fb_attempts, fb_report,
          r_pc, r_in, r_chunk, r_file, r_plain, r_result,
          cf_in, cf_out, u_url, u_out, p_pc, p_cfg, p_st,
          ml_pc, ml_in, ml_out,
          vc_config, vc_result,
          pr_in, pr_out,
          cc_file, cc_pc, cc_sent,
          gm_url, gm_id,
          ic_in, ic_fs, ic_out,
          tf_in, tf_pc, tf_i, tf_temp_file, tf_disk, tf_created, tf_promoted, tf_unlink_raised, tf_cleanup,
          pf_in, pf_out,
          el_in, el_out,
          pg_in, pg_pc, pg_idx, pg_disk, pg_created, pg_downloaded_files, pg_image_files, pg_unlink_raised, pg_result,
          td_in, td_pc, td_task, td_permits, td_results,
          reg_instance, reg_registry, reg_map, reg_got>>

(***************************************************************************)
(* ResourceManager                                                         *)
(***************************************************************************)
\* the empty path ("" or None): register_* ignores it
EmptyPath == 0
RealPaths == 1..MaxPaths
Paths == {EmptyPath} \cup RealPaths

\* get_stats()
GetStats(temp, cache, cleaned) ==
    [temp_files_count  |-> Cardinality(temp),
     cache_files_count |-> Cardinality(cache),
     total_files_count |-> Cardinality(temp) + Cardinality(cache),
     cleaned           |-> cleaned]

\* _cleanup_files(file_paths): every path of the set that exists is unlinked;
\* os.unlink raises for the paths in `fail`, which is caught and logged.
\* The set is cleared afterwards whatever happened.
CleanupFiles(paths, d, fail) ==
    LET existing == {p \in paths : p # EmptyPath /\ p \in d}
        unlinked == existing \ fail
    IN  [unlinked |-> unlinked,
         logged   |-> existing \cap fail,
         visited  |-> paths,
         count    |-> Cardinality(unlinked),
         disk     |-> d \ unlinked,
         left     |-> {}]

\* cleanup_all with the early-return test inverted
CleanupAllInvertedGuard(temp, cache, cleaned, d, failT, failC) ==
    IF ~cleaned
    THEN [temp |-> temp, cache |-> cache, cleaned |-> cleaned, disk |-> d,
          ret |-> 0, unlinkedT |-> {}, unlinkedC |-> {}, logged |-> {},
          visited |-> {}]
    ELSE LET t == CleanupFiles(temp, d, failT)
             c == CleanupFiles(cache, t.disk, failC)
         IN  [temp |-> t.left, cache |-> c.left, cleaned |-> TRUE,
              disk |-> c.disk, ret |-> t.count + c.count,
              unlinkedT |-> t.unlinked, unlinkedC |-> c.unlinked,
              logged |-> t.logged \cup c.logged,
              visited |-> t.visited \cup c.visited]

\* cleanup_all(): no-op once _cleaned is set; otherwise sets the flag, cleans
\* the temp files, then the cache files, and returns the number unlinked.
CleanupAllResult(temp, cache, cleaned, d, failT, failC) ==
    IF cleaned
    THEN [temp |-> temp, cache |-> cache, cleaned |-> cleaned, disk |-> d,
          ret |-> 0, unlinkedT |-> {}, unlinkedC |-> {}, logged |-> {},
          visited |-> {}]
    ELSE LET t == CleanupFiles(temp, d, failT)
             c == CleanupFiles(cache, t.disk, failC)
         IN  [temp |-> t.left, cache |-> c.left, cleaned |-> TRUE,
              disk |-> c.disk, ret |-> t.count + c.count,
              unlinkedT |-> t.unlinked, unlinkedC |-> c.unlinked,
              logged |-> t.logged \cup c.logged,
              visited |-> t.visited \cup c.visited]

\* observations kept about the run of consecutive cleanup_all calls
RMHist0 ==
    [consec      |-> 0,                      \* cleanup_all calls in a row
     ret         |-> 0,                      \* value returned by the last one
     stats_prev  |-> GetStats({}, {}, FALSE),\* get_stats() after the call before
     call_unl    |-> [p \in Paths |-> 0],    \* unlinks per path in this run
     reg0        |-> {},                     \* registered when the run began
     disk0       |-> {},                     \* on disk when the run began
     failed      |-> {},                     \* unlink failures logged in this run
     fresh       |-> FALSE,                  \* _cleaned was unset when the run began
     last_unl    |-> {},                     \* paths unlinked by the last call
     exit_missed |-> {}]                     \* registered at scope exit, not visited

\* any call other than cleanup_all ends the run of consecutive calls
RMHistReset == [RMHist0 EXCEPT !.exit_missed = rm_hist.exit_missed]

RMInit ==
    /\ rm_temp = {}
    /\ rm_cache = {}
    /\ rm_cleaned = FALSE
    /\ disk \in SUBSET RealPaths
    /\ rm_scope = "in"
    /\ rm_hist = RMHist0

\* a handler creates a file on disk (before it is registered)
CreateFile(p) ==
    /\ rm_scope = "in"
    /\ UNCHANGED notRM
    /\ p \in RealPaths
    /\ p \notin disk
    /\ disk' = disk \cup {p}
    /\ rm_hist' = RMHistReset
    /\ UNCHANGED <<rm_temp, rm_cache, rm_cleaned, rm_scope>>

\* register_temp_file(file_path)
RegisterTempFile(p) ==
    /\ rm_scope = "in"
    /\ UNCHANGED notRM
    /\ rm_temp' = IF p # EmptyPath THEN rm_temp \cup {p} ELSE rm_temp
    /\ rm_hist' = RMHistReset
    /\ UNCHANGED <<rm_cache, rm_cleaned, disk, rm_scope>>

\* register_cache_file(file_path)
RegisterCacheFile(p) ==
    /\ rm_scope = "in"
    /\ UNCHANGED notRM
    /\ rm_cache' = IF p # EmptyPath THEN rm_cache \cup {p} ELSE rm_cache
    /\ rm_hist' = RMHistReset
    /\ UNCHANGED <<rm_temp, rm_cleaned, disk, rm_scope>>

\* register_files(file_paths, is_cache)
RegisterFiles(ps, is_cache) ==
    /\ rm_scope = "in"
    /\ UNCHANGED notRM
    /\ IF is_cache
       THEN /\ rm_cache' = rm_cache \cup (ps \ {EmptyPath})
            /\ UNCHANGED rm_temp
       ELSE /\ rm_temp' = rm_temp \cup (ps \ {EmptyPath})
            /\ UNCHANGED rm_cache
    /\ rm_hist' = RMHistReset
    /\ UNCHANGED <<rm_cleaned, disk, rm_scope>>

\* cleanup_temp_files()
CleanupTempFiles(fail) ==
    /\ rm_scope = "in"
    /\ UNCHANGED notRM
    /\ LET r == CleanupFiles(rm_temp, disk, fail)
       IN  /\ rm_temp' = r.left
           /\ disk' = r.disk
    /\ rm_hist' = RMHistReset
    /\ UNCHANGED <<rm_cache, rm_cleaned, rm_scope>>

\* cleanup_cache_files()
CleanupCacheFiles(fail) ==
    /\ rm_scope = "in"
    /\ UNCHANGED notRM
    /\ LET r == CleanupFiles(rm_cache, disk, fail)
       IN  /\ rm_cache' = r.left
           /\ disk' = r.disk
    /\ rm_hist' = RMHistReset
    /\ UNCHANGED <<rm_temp, rm_cleaned, rm_scope>>

\* history after one more cleanup_all call with result r
RMHistAfterCleanupAll(r) ==
    LET first == rm_hist.consec = 0
        base  == IF first THEN [p \in Paths |-> 0] ELSE rm_hist.call_unl
    IN  [consec      |-> rm_hist.consec + 1,
         ret         |-> r.ret,
         stats_prev  |-> GetStats(rm_temp, rm_cache, rm_cleaned),
         call_unl    |-> [p \in Paths |->
                            base[p]
                            + (IF p \in r.unlinkedT THEN 1 ELSE 0)
                            + (IF p \in r.unlinkedC THEN 1 ELSE 0)],
         reg0        |-> IF first THEN rm_temp \cup rm_cache ELSE rm_hist.reg0,
         disk0       |-> IF first THEN disk ELSE rm_hist.disk0,
         failed      |-> IF first THEN r.logged ELSE rm_hist.failed \cup r.logged,
         fresh       |-> IF first THEN ~rm_cleaned ELSE rm_hist.fresh,
         last_unl    |-> r.unlinkedT \cup r.unlinkedC,
         exit_missed |-> rm_hist.exit_missed]

\* cleanup_all()
CleanupAll(failT, failC) ==
    /\ rm_scope = "in"
    /\ UNCHANGED notRM
    /\ rm_hist.consec < MaxCleanupAllCalls
    /\ LET r == CleanupAllResult(rm_temp, rm_cache, rm_cleaned, disk, failT, failC)
       IN  /\ rm_temp' = r.temp
           /\ rm_cache' = r.cache
           /\ rm_cleaned' = r.cleaned
           /\ disk' = r.disk
           /\ rm_hist' = RMHistAfterCleanupAll(r)
    /\ UNCHANGED rm_scope

\* __exit__(exc_type, exc_val, exc_tb): cleanup_all(), then return False;
\* the same code runs on a normal and on an exceptional exit.
ScopeExit(failT, failC) ==
    /\ rm_scope = "in"
    /\ UNCHANGED notRM
    /\ LET r == CleanupAllResult(rm_temp, rm_cache, rm_cleaned, disk, failT, failC)
       IN  /\ rm_temp' = r.temp
           /\ rm_cache' = r.cache
           /\ rm_cleaned' = r.cleaned
           /\ disk' = r.disk
           /\ rm_hist' = [rm_hist EXCEPT
                            !.exit_missed = (rm_temp \cup rm_cache) \ r.visited]
    /\ rm_scope' = "exited"

RMNext ==
    \/ \E p \in RealPaths : CreateFile(p)
    \/ \E p \in Paths : RegisterTempFile(p)
    \/ \E p \in Paths : RegisterCacheFile(p)
    \/ \E ps \in SUBSET Paths, c \in BOOLEAN : RegisterFiles(ps, c)
    \/ \E f \in SUBSET RealPaths : CleanupTempFiles(f)
    \/ \E f \in SUBSET RealPaths : CleanupCacheFiles(f)
    \/ \E ft \in SUBSET RealPaths, fc \in SUBSET RealPaths : CleanupAll(ft, fc)
    \/ \E ft \in SUBSET RealPaths, fc \in SUBSET RealPaths : ScopeExit(ft, fc)

\* the delivery component at rest
SIdle ==
    /\ s_pc = "idle"
    /\ s_cfg = [flow |-> "none", pack |-> FALSE]
    /\ s_links = <<>>
    /\ s_idx = 0
    /\ s_obs = [sent |-> {}, delivered |-> {}, premature |-> {},
                failed |-> {}, exc |-> FALSE]

(***************************************************************************)
(* Delivery of one request: ResultProcessor.process_and_send with          *)
(* MessageSender (flows "rm": with a ResourceManager, "plain": without),   *)
(* and the plugin's own auto_parse (flow "main").                          *)
(***************************************************************************)
\* node lists of a link: Plain text, Image and Video components
NodeLists ==
    { <<"Plain">>, <<"Plain", "Video">>, <<"Plain", "Image">>,
      <<"Plain", "Video", "Image">>, <<"Plain", "Image", "Video">> }

HasKind(nodes, k) == \E i \in 1..Len(nodes) : nodes[i] = k

\* one link of the parse result: its nodes, whether it owns a downloaded
\* video file (metadata['video_files']) and a temp image file, and whether it
\* is a large-video link (is_large_video, else is_normal)
LinkShapes ==
    { l \in [nodes : NodeLists, vf : BOOLEAN, tf : BOOLEAN, large : BOOLEAN] :
        /\ l.vf => HasKind(l.nodes, "Video")
        /\ l.tf => HasKind(l.nodes, "Image")
        /\ l.large => l.vf }

\* file paths: the video file of link i is path i, its temp file MaxLinks + i
VideoPath(i) == i
TempPath(i) == MaxLinks + i
Owner(p) == IF p <= MaxLinks THEN p ELSE p - MaxLinks
IsTempPath(p) == p > MaxLinks

\* metadata.get('video_files', []) of link i
LinkVideoFiles(links, i) == IF links[i].vf THEN {VideoPath(i)} ELSE {}
\* the temp_files and video_files lists of the parse result tuple
ResultTempFiles(links) == {TempPath(i) : i \in {j \in 1..Len(links) : links[j].tf}}
ResultVideoFiles(links) == {VideoPath(i) : i \in {j \in 1..Len(links) : links[j].vf}}

\* _is_pure_image_gallery(nodes): scans the nodes, stops at the first Video
RECURSIVE GalleryScan(_, _, _)
GalleryScan(nodes, i, has_image) ==
    IF i > Len(nodes) THEN has_image
    ELSE IF nodes[i] = "Video" THEN FALSE
    ELSE IF nodes[i] = "Image" THEN GalleryScan(nodes, i + 1, TRUE)
    ELSE GalleryScan(nodes, i + 1, has_image)

IsPureImageGallery(nodes) == GalleryScan(nodes, 1, FALSE)

\* indices of the links with is_large_video = flag, in order
\* (normal_metadata / large_video_metadata)
FilterIdx(links, flag) ==
    LET F[k \in 0..Len(links)] ==
            IF k = 0 THEN <<>>
            ELSE IF links[k].large = flag THEN Append(F[k - 1], k) ELSE F[k - 1]
    IN  F[Len(links)]

SeqRange(q) == {q[i] : i \in 1..Len(q)}

\* _simple_cleanup / _cleanup_files of the plugin: unlink what exists,
\* swallowing unlink errors
SimpleCleanup(fs, d, fail) ==
    LET unlinked == (fs \cap d) \ fail
    IN  [unlinked |-> unlinked, logged |-> fs \cap d \cap fail,
         disk |-> d \ unlinked]

\* "clean up the video files just sent" as MessageSender does it in its
\* finally blocks: with a resource manager, register_files(fs, is_cache=True)
\* then cleanup_cache_files(); without one, _simple_cleanup(fs); nothing
\* when the link has no video files.
SenderCleanup(flow, fs, cache, d, fail) ==
    IF fs = {} THEN
        [cache |-> cache, disk |-> d, unlinked |-> {}, logged |-> {}]
    ELSE IF flow = "rm" THEN
        LET r == CleanupFiles(cache \cup fs, d, fail)
        IN  [cache |-> r.left, disk |-> r.disk, unlinked |-> r.unlinked,
             logged |-> r.logged]
    ELSE
        LET r == SimpleCleanup(fs, d, fail)
        IN  [cache |-> cache, disk |-> r.disk, unlinked |-> r.unlinked,
             logged |-> r.logged]

\* observations after a cleanup that unlinked `unl` (logging `lg`) once the
\* links in `now` had their nodes handed to event.send; `ok` are the links
\* whose nodes were all sent without an error
ObsAfter(now, ok, unl, lg, raised) ==
    LET sent == s_obs.sent \cup now
    IN  [sent      |-> sent,
         delivered |-> s_obs.delivered \cup ok,
         premature |-> s_obs.premature \cup {p \in unl : Owner(p) \notin sent},
         failed    |-> s_obs.failed \cup lg,
         exc       |-> raised]

SInit ==
    /\ s_pc = "start"
    /\ s_cfg \in [flow : {"rm", "plain", "main"}, pack : BOOLEAN]
    /\ \E n \in 1..MaxLinks : s_links \in [1..n -> LinkShapes]
    /\ s_idx = 0
    /\ s_obs = [sent |-> {}, delivered |-> {}, premature |-> {},
                failed |-> {}, exc |-> FALSE]
    /\ rm_temp = {}
    /\ rm_cache = {}
    /\ rm_cleaned = FALSE
    /\ rm_scope = "in"
    /\ rm_hist = RMHist0
    /\ disk = ResultTempFiles(s_links) \cup ResultVideoFiles(s_links)

\* where the send loops start
AfterStart(pack) == IF pack THEN "packed" ELSE "unpacked"

\* process_and_send, lines 68-77: unpack the parse result and register its
\* temp_files and video_files with the resource manager when there is one
ProcessRegister ==
    /\ s_pc = "start"
    /\ s_cfg.flow \in {"rm", "plain"}
    /\ IF s_cfg.flow = "rm"
       THEN /\ rm_temp' = rm_temp \cup ResultTempFiles(s_links)
            /\ rm_cache' = rm_cache \cup ResultVideoFiles(s_links)
       ELSE UNCHANGED <<rm_temp, rm_cache>>
    /\ s_pc' = AfterStart(s_cfg.pack)
    /\ s_idx' = 1
    /\ UNCHANGED <<rm_cleaned, disk, rm_scope, rm_hist, s_cfg, s_links, s_obs>>
    /\ UNCHANGED notSend

\* send_unpacked_results: one iteration of the loop over the links.
\* out = "ok": every event.send worked; "node_exc": a send of one of the
\* link's nodes raised; "sep_exc": the separator send raised.
SendUnpackedLink(out, fail) ==
    /\ s_pc = "unpacked"
    /\ s_cfg.flow \in {"rm", "plain"}
    /\ s_idx <= Len(s_links)
    /\ out = "sep_exc" => s_idx < Len(s_links)
    /\ LET link    == s_links[s_idx]
           gallery == IsPureImageGallery(link.nodes)
           \* the gallery branch has no try around event.send
           raised  == (out = "node_exc" /\ gallery) \/ out = "sep_exc"
           c == SenderCleanup(s_cfg.flow, LinkVideoFiles(s_links, s_idx),
                              rm_cache, disk, fail)
       IN  /\ rm_cache' = c.cache
           /\ disk' = c.disk
           /\ s_obs' = ObsAfter({s_idx}, IF out = "node_exc" THEN {} ELSE {s_idx},
                                c.unlinked, c.logged, raised)
           /\ s_pc' = IF raised THEN "raised"
                      ELSE IF s_idx = Len(s_links) THEN "sent" ELSE "unpacked"
           /\ s_idx' = s_idx + 1
    /\ UNCHANGED <<rm_temp, rm_cleaned, rm_scope, rm_hist, s_cfg, s_links>>
    /\ UNCHANGED notSend

\* send_packed_results, lines 72-147: all normal links go out in one Nodes
\* message; the finally block then cleans the normal links' video files.
SendPackedNormal(out, fail) ==
    /\ s_pc = "packed"
    /\ s_cfg.flow \in {"rm", "plain"}
    /\ LET normal == SeqRange(FilterIdx(s_links, FALSE))
           files  == UNION {LinkVideoFiles(s_links, i) : i \in normal}
           raised == out = "node_exc" /\ normal # {}
           c == IF normal = {}
                THEN [cache |-> rm_cache, disk |-> disk, unlinked |-> {},
                      logged |-> {}]
                ELSE SenderCleanup(s_cfg.flow, files, rm_cache, disk, fail)
       IN  /\ out \in {"ok", "node_exc"}
           /\ out = "node_exc" => normal # {}
           /\ rm_cache' = c.cache
           /\ disk' = c.disk
           /\ s_obs' = ObsAfter(normal, IF raised THEN {} ELSE normal,
                                c.unlinked, c.logged, raised)
           /\ s_pc' = IF raised THEN "raised"
                      ELSE IF FilterIdx(s_links, TRUE) # <<>> THEN "notice"
                      ELSE "sent"
    /\ s_idx' = 1
    /\ UNCHANGED <<rm_temp, rm_cleaned, rm_scope, rm_hist, s_cfg, s_links>>
    /\ UNCHANGED notSend

\* send_large_media_results, lines 178-188: the notice before the large links
SendLargeNotice(out) ==
    /\ s_pc = "notice"
    /\ s_cfg.flow \in {"rm", "plain"}
    /\ out \in {"ok", "sep_exc"}
    /\ s_pc' = IF out = "ok" THEN "large" ELSE "raised"
    /\ s_obs' = [s_obs EXCEPT !.exc = out # "ok"]
    /\ s_idx' = 1
    /\ UNCHANGED <<rmVars, s_cfg, s_links>>
    /\ UNCHANGED notSend

\* send_large_media_results, lines 189-211: one iteration over the large links;
\* a failing node send is logged and swallowed
SendLargeLink(out, fail) ==
    /\ s_pc = "large"
    /\ s_cfg.flow \in {"rm", "plain"}
    /\ LET large == FilterIdx(s_links, TRUE)
       IN  /\ s_idx <= Len(large)
           /\ out = "sep_exc" => s_idx < Len(large)
           /\ LET i == large[s_idx]
                  raised == out = "sep_exc"
                  c == SenderCleanup(s_cfg.flow, LinkVideoFiles(s_links, i),
                                     rm_cache, disk, fail)
              IN  /\ rm_cache' = c.cache
                  /\ disk' = c.disk
                  /\ s_obs' = ObsAfter({i}, IF out = "node_exc" THEN {} ELSE {i},
                                       c.unlinked, c.logged, raised)
                  /\ s_pc' = IF raised THEN "raised"
                             ELSE IF s_idx = Len(large) THEN "sent" ELSE "large"
    /\ s_idx' = s_idx + 1
    /\ UNCHANGED <<rm_temp, rm_cleaned, rm_scope, rm_hist, s_cfg, s_links>>
    /\ UNCHANGED notSend

\* process_and_send returns, or logs and re-raises (lines 97-99); the
\* caller's with-block then leaves the ResourceManager scope: __exit__
RequestScopeExit(failT, failC) ==
    /\ s_pc \in {"sent", "raised"}
    /\ s_cfg.flow = "rm"
    /\ LET r == CleanupAllResult(rm_temp, rm_cache, rm_cleaned, disk, failT, failC)
       IN  /\ rm_temp' = r.temp
           /\ rm_cache' = r.cache
           /\ rm_cleaned' = r.cleaned
           /\ disk' = r.disk
           /\ s_obs' = [s_obs EXCEPT !.failed = @ \cup r.logged]
    /\ rm_scope' = "exited"
    /\ s_pc' = "done"
    /\ UNCHANGED <<rm_hist, s_cfg, s_links, s_idx>>
    /\ UNCHANGED notSend

\* process_and_send called without a resource manager: nothing more happens
PlainReturn ==
    /\ s_pc \in {"sent", "raised"}
    /\ s_cfg.flow = "plain"
    /\ s_pc' = "done"
    /\ UNCHANGED <<rmVars, s_cfg, s_links, s_idx, s_obs>>
    /\ UNCHANGED notSend

\* ---- main.py: VideoParserPlugin.auto_parse ----

\* auto_parse, line 163: the result tuple is unpacked, the try block begins
MainStart ==
    /\ s_pc = "start"
    /\ s_cfg.flow = "main"
    /\ s_pc' = AfterStart(s_cfg.pack)
    /\ s_idx' = 1
    /\ UNCHANGED <<rmVars, s_cfg, s_links, s_obs>>
    /\ UNCHANGED notSend

\* auto_parse, lines 183-218: the normal links in one Nodes message
MainPackedNormal(out) ==
    /\ s_pc = "packed"
    /\ s_cfg.flow = "main"
    /\ out \in {"ok", "node_exc"}
    /\ LET normal == SeqRange(FilterIdx(s_links, FALSE))
           raised == out = "node_exc"
       IN  /\ out = "node_exc" => normal # {}
           /\ s_obs' = ObsAfter(normal, IF raised THEN {} ELSE normal, {}, {}, raised)
           /\ s_pc' = IF raised THEN "raised"
                      ELSE IF FilterIdx(s_links, TRUE) # <<>> THEN "notice"
                      ELSE "normal_cleanup"
    /\ s_idx' = 1
    /\ UNCHANGED <<rmVars, s_cfg, s_links>>
    /\ UNCHANGED notSend

\* auto_parse, lines 221-225: the notice before the large links
MainLargeNotice(out) ==
    /\ s_pc = "notice"
    /\ s_cfg.flow = "main"
    /\ out \in {"ok", "sep_exc"}
    /\ s_pc' = IF out = "ok" THEN "large" ELSE "raised"
    /\ s_obs' = [s_obs EXCEPT !.exc = out # "ok"]
    /\ s_idx' = 1
    /\ UNCHANGED <<rmVars, s_cfg, s_links>>
    /\ UNCHANGED notSend

\* auto_parse, lines 228-241: one large link: its nodes are sent (an error
\* leaves the loop at once), then its video files are unlinked, then the
\* separator is sent
MainLargeLink(out, fail) ==
    /\ s_pc = "large"
    /\ s_cfg.flow = "main"
    /\ LET large == FilterIdx(s_links, TRUE)
       IN  /\ s_idx <= Len(large)
           /\ out = "sep_exc" => s_idx < Len(large)
           /\ LET i == large[s_idx]
                  raised == out # "ok"
                  c == IF out = "node_exc"
                       THEN [unlinked |-> {}, logged |-> {}, disk |-> disk]
                       ELSE SimpleCleanup(LinkVideoFiles(s_links, i), disk, fail)
              IN  /\ disk' = c.disk
                  /\ s_obs' = ObsAfter({i}, IF out = "node_exc" THEN {} ELSE {i},
                                       c.unlinked, c.logged, raised)
                  /\ s_pc' = IF raised THEN "raised"
                             ELSE IF s_idx = Len(large) THEN "normal_cleanup"
                             ELSE "large"
    /\ s_idx' = s_idx + 1
    /\ UNCHANGED <<rm_temp, rm_cache, rm_cleaned, rm_scope, rm_hist, s_cfg, s_links>>
    /\ UNCHANGED notSend

\* auto_parse, lines 243-247: the video files of the normal links
MainCleanupNormal(fail) ==
    /\ s_pc = "normal_cleanup"
    /\ s_cfg.flow = "main"
    /\ LET normal == SeqRange(FilterIdx(s_links, FALSE))
           c == SimpleCleanup(UNION {LinkVideoFiles(s_links, i) : i \in normal},
                              disk, fail)
       IN  /\ disk' = c.disk
           /\ s_obs' = ObsAfter({}, {}, c.unlinked, c.logged, FALSE)
    /\ s_pc' = "sent"
    /\ UNCHANGED <<rm_temp, rm_cache, rm_cleaned, rm_scope, rm_hist, s_cfg,
                   s_links, s_idx>>
    /\ UNCHANGED notSend

\* auto_parse, lines 250-277: one link in unpacked mode: its nodes are sent
\* (an error leaves the loop at once), its video files are unlinked, the
\* separator is sent
MainUnpackedLink(out, fail) ==
    /\ s_pc = "unpacked"
    /\ s_cfg.flow = "main"
    /\ s_idx <= Len(s_links)
    /\ out = "sep_exc" => s_idx < Len(s_links)
    /\ LET raised == out # "ok"
           c == IF out = "node_exc"
                THEN [unlinked |-> {}, logged |-> {}, disk |-> disk]
                ELSE SimpleCleanup(LinkVideoFiles(s_links, s_idx), disk, fail)
       IN  /\ disk' = c.disk
           /\ s_obs' = ObsAfter({s_idx}, IF out = "node_exc" THEN {} ELSE {s_idx},
                                c.unlinked, c.logged, raised)
           /\ s_pc' = IF raised THEN "raised"
                      ELSE IF s_idx = Len(s_links) THEN "sent" ELSE "unpacked"
    /\ s_idx' = s_idx + 1
    /\ UNCHANGED <<rm_temp, rm_cache, rm_cleaned, rm_scope, rm_hist, s_cfg, s_links>>
    /\ UNCHANGED notSend

\* _cleanup_all_files(temp_files, video_files): only the temp files are
\* unlinked (lines 116-123)
CleanupAllFiles(temp_files, video_files, d, fail) ==
    SimpleCleanup(temp_files, d, fail)

\* auto_parse, line 279 (after the sends) and lines 280-282 (except branch,
\* which re-raises): _cleanup_all_files(temp_files, video_files)
MainFinish(fail) ==
    /\ s_pc \in {"sent", "raised"}
    /\ s_cfg.flow = "main"
    /\ LET c == CleanupAllFiles(ResultTempFiles(s_links),
                                ResultVideoFiles(s_links), disk, fail)
       IN  /\ disk' = c.disk
           /\ s_obs' = [s_obs EXCEPT !.failed = @ \cup c.logged]
    /\ s_pc' = "done"
    /\ UNCHANGED <<rm_temp, rm_cache, rm_cleaned, rm_scope, rm_hist, s_cfg,
                   s_links, s_idx>>
    /\ UNCHANGED notSend

SendOutcomes == {"ok", "node_exc", "sep_exc"}

SNext ==
    \/ ProcessRegister
    \/ \E o \in SendOutcomes, f \in SUBSET disk : SendUnpackedLink(o, f)
    \/ \E o \in SendOutcomes, f \in SUBSET disk : SendPackedNormal(o, f)
    \/ \E o \in SendOutcomes : SendLargeNotice(o)
    \/ \E o \in SendOutcomes, f \in SUBSET disk : SendLargeLink(o, f)
    \/ \E ft \in SUBSET disk, fc \in SUBSET disk : RequestScopeExit(ft, fc)
    \/ PlainReturn
    \/ MainStart
    \/ \E o \in SendOutcomes : MainPackedNormal(o)
    \/ \E o \in SendOutcomes : MainLargeNotice(o)
    \/ \E o \in SendOutcomes, f \in SUBSET disk : MainLargeLink(o, f)
    \/ \E f \in SUBSET disk : MainCleanupNormal(f)
    \/ \E o \in SendOutcomes, f \in SUBSET disk : MainUnpackedLink(o, f)
    \/ \E f \in SUBSET disk : MainFinish(f)

(***************************************************************************)
(* DownloadManager.process_metadata (core/download_manager.py).  One post  *)
(* is processed; the steps are the blocks between the awaits of the        *)
(* coroutine.  Sizes are whole MB.                                         *)
(***************************************************************************)
\* Python's None, for sizes, status codes and file paths
None == 0 - 1

\* sizes a video can have: below, at and above the ceiling used in DMConfigs
Sizes == {1, 2, 3}

\* a video URL group: list of URLs, each with the status it answers and the
\* size of the resource behind it
VideoGroups ==
    {<<[ans |-> 200, size |-> s]>> : s \in Sizes}
        \cup {<<[ans |-> 403, size |-> 1]>>}

\* an image URL group: list of URLs, each given by the status it answers
ImageGroups == {<<200>>, <<403>>, <<404>>, <<403, 200>>}

\* __init__: max_video_size_mb (0 = no ceiling), large_video_threshold_mb
\* (0 = off), pre_download_all_media, cache_dir_available
DMConfigs ==
    [max_video_size_mb : {0, 2}, large_video_threshold_mb : {0, 1},
     pre_download_all_media : BOOLEAN, cache_dir_available : BOOLEAN]

\* metadata[k] = v for every field of new
Put(md, new) ==
    [k \in DOMAIN md \cup DOMAIN new |->
        IF k \in DOMAIN new THEN new[k] ELSE md[k]]

SetMax(S) == CHOOSE x \in S : \A y \in S : y <= x

\* valid_sizes = [s for s in video_sizes if s is not None], as a set
ValidSizes(video_sizes) ==
    {video_sizes[i] : i \in 1..Len(video_sizes)} \ {None}

\* max(valid_sizes) if valid_sizes else None
MaxOrNone(video_sizes) ==
    IF ValidSizes(video_sizes) = {} THEN None
    ELSE SetMax(ValidSizes(video_sizes))

\* sum(valid_sizes) if valid_sizes else 0.0
RECURSIVE SumValid(_)
SumValid(video_sizes) ==
    IF video_sizes = <<>> THEN 0
    ELSE (IF Head(video_sizes) = None THEN 0 ELSE Head(video_sizes))
            + SumValid(Tail(video_sizes))

\* number of None entries of a list
RECURSIVE CountNone(_)
CountNone(xs) ==
    IF xs = <<>> THEN 0
    ELSE (IF Head(xs) = None THEN 1 ELSE 0) + CountNone(Tail(xs))

\* get_video_size(session, url, ...): (size, status) of one URL; a probe
\* that times out or raises gives (None, None)
GetVideoSize(u, missed) ==
    IF missed THEN <<None, None>>
    ELSE IF u.ans = 200 THEN <<u.size, 200>>
    ELSE <<None, u.ans>>

\* get_video_size_task: only the first URL of the group is probed
GetVideoSizeTask(url_list, missed) ==
    IF url_list = <<>> THEN <<None, None>>
    ELSE GetVideoSize(url_list[1], missed)

\* the pre-probe rejects with the minimum instead of the maximum
PreCheckExceedsMin(video_sizes, M) ==
    /\ ValidSizes(video_sizes) # {}
    /\ \A s \in ValidSizes(video_sizes) : s > M

\* the pre-probe rejects a size equal to the ceiling as well
PreCheckExceedsOrEqual(video_sizes, M) ==
    /\ ValidSizes(video_sizes) # {}
    /\ SetMax(ValidSizes(video_sizes)) >= M

\* lines 332-335: some probed size is above the ceiling
PreCheckExceeds(video_sizes, M) ==
    /\ ValidSizes(video_sizes) # {}
    /\ SetMax(ValidSizes(video_sizes)) > M

\* validate_media_url(session, url, is_video=False): (is_valid, status)
ValidateMediaUrl(u) == <<u = 200, u>>

\* validate_image_task: only the first URL of the group is validated
ValidateImageTask(url_list) ==
    IF url_list = <<>> THEN <<FALSE, None>>
    ELSE ValidateMediaUrl(url_list[1])

\* cache path <cache_dir>/<media-id>_<index>.<ext> of media item index
CachePath(index) == index
\* temp file of image img_idx written by download_image_to_file
TempImagePath(img_idx) == MaxVideos + MaxImages + img_idx

\* download_image_to_file(session, url, index): the temp path, or None
DownloadImageToFile(u, img_idx) ==
    IF u = 200 THEN TempImagePath(img_idx) ELSE None

\* _download_one_image: first URL of the group that yields a file
RECURSIVE DownloadOneImage(_, _)
DownloadOneImage(url_list, img_idx) ==
    IF url_list = <<>> THEN None
    ELSE IF DownloadImageToFile(Head(url_list), img_idx) # None
         THEN DownloadImageToFile(Head(url_list), img_idx)
         ELSE DownloadOneImage(Tail(url_list), img_idx)

\* _download_images: (image_file_paths, failed_image_count)
DownloadImages(image_urls, has_valid_images) ==
    IF image_urls # <<>> /\ has_valid_images
    THEN LET paths == [j \in 1..Len(image_urls) |->
                          DownloadOneImage(image_urls[j], j)]
         IN [image_file_paths |-> paths,
             failed_image_count |-> CountNone(paths)]
    ELSE [image_file_paths |-> <<>>,
          failed_image_count |-> Len(image_urls)]

\* _build_media_items: videos first, then images, index running over both
BuildMediaItems(video_urls, image_urls) ==
    [k \in 1..(Len(video_urls) + Len(image_urls)) |->
        IF k <= Len(video_urls)
        THEN [url_list |-> video_urls[k], index |-> k, is_video |-> TRUE]
        ELSE [url_list |-> image_urls[k - Len(video_urls)], index |-> k,
              is_video |-> FALSE]]

\* does some URL of the item's group answer 200
ItemDownloadable(item) ==
    \E i \in 1..Len(item.url_list) :
        IF item.is_video THEN item.url_list[i].ans = 200
        ELSE item.url_list[i] = 200

\* the items of a list that can be downloaded
DownloadableItems(media_items) ==
    {k \in 1..Len(media_items) : ItemDownloadable(media_items[k])}

\* size of the file a video item downloads: the first URL answering 200
ItemSize(item) ==
    LET i == CHOOSE i \in 1..Len(item.url_list) :
                /\ item.url_list[i].ans = 200
                /\ \A j \in 1..(i - 1) : item.url_list[j].ans # 200
    IN item.url_list[i].size

\* pre_download_media(session, media_items, cache_dir, max_concurrent):
\* one result per item, in item order; dl_fail = items whose download fails
\* although a URL of the group answers
PreDownloadMedia(media_items, dl_fail) ==
    [k \in 1..Len(media_items) |->
        LET ok == ItemDownloadable(media_items[k]) /\ k \notin dl_fail
        IN [success |-> ok,
            file_path |-> IF ok THEN CachePath(media_items[k].index)
                          ELSE None,
            size_mb |-> IF ok /\ media_items[k].is_video
                        THEN ItemSize(media_items[k]) ELSE None]]

\* result.get('success') and result.get('file_path')
ResultOk(result) == result.success /\ result.file_path # None

\* _process_download_results: (file_paths, failed_video_count,
\* failed_image_count)
ProcessDownloadResults(download_results, video_urls, image_urls) ==
    LET slot(k) == IF k <= Len(download_results)
                      /\ ResultOk(download_results[k])
                   THEN download_results[k].file_path ELSE None
        nv == Len(video_urls)
        ni == Len(image_urls)
        fps == [k \in 1..(nv + ni) |-> slot(k)]
    IN [file_paths |-> fps,
        failed_video_count |-> Cardinality({k \in 1..nv : fps[k] = None}),
        failed_image_count |->
            Cardinality({k \in (nv + 1)..(nv + ni) : fps[k] = None})]

\* the paths of a list that are not None
PathsOf(file_paths) ==
    {file_paths[i] : i \in 1..Len(file_paths)} \ {None}

\* a cleanup that unlinks nothing
CleanupFilesListNothing(file_paths, d, fail) == d

\* file_manager.cleanup_files: unlink every existing path of the list; an
\* unlink that raises (fail) is logged and the file stays
CleanupFilesList(file_paths, d, fail) == d \ (PathsOf(file_paths) \ fail)

\* the threshold test without the `> 0` switch
NeedsDownloadAlways(L, max_video_size) ==
    max_video_size # None /\ max_video_size > L

\* lines 532-535: needs_download
NeedsDownload(L, max_video_size) ==
    L > 0 /\ max_video_size # None /\ max_video_size > L

\* pre-download is taken whatever the startup probe of the cache said
UsePreDownloadUnprobed(cfg) == cfg.pre_download_all_media

\* line 355: `if self.pre_download_all_media and self.cache_dir_available`
UsePreDownload(cfg) ==
    cfg.pre_download_all_media /\ cfg.cache_dir_available

\* locals of process_metadata that live across its awaits, and observations
DMLoc0 ==
    [pre_probe |-> <<>>,              \* sizes measured by the pre-probe
     pre_check_video_sizes |-> <<>>,  \* None is the empty list
     video_sizes |-> <<>>,
     has_valid_videos |-> FALSE,
     has_valid_images |-> FALSE,
     dl_ok |-> {},                    \* items whose download succeeded
     unlink_failed |-> {},            \* files whose unlink raised
     branch |-> "none"]               \* return path taken

DMInit ==
    /\ dm_pc = "start"
    /\ dm_cfg \in DMConfigs
    /\ \E nv \in 0..MaxVideos, ni \in 0..MaxImages :
          \E vs \in [1..nv -> VideoGroups], is \in [1..ni -> ImageGroups] :
          \E force \in {f \in BOOLEAN : f => nv > 0} :
              dm_md = [video_urls |-> vs, image_urls |-> is,
                       video_force_download |-> force]
    /\ dm_loc = DMLoc0
    /\ dm_disk = {}
    /\ dm_started = {}

\* lines 291-298: a post without any URL group
DMEntryEmpty ==
    /\ dm_pc = "start"
    /\ dm_md.video_urls = <<>> /\ dm_md.image_urls = <<>>
    /\ dm_md' = Put(dm_md, [has_valid_media |-> FALSE,
                            video_count |-> 0, image_count |-> 0,
                            failed_video_count |-> 0,
                            failed_image_count |-> 0,
                            file_paths |-> <<>>])
    /\ dm_pc' = "done"
    /\ dm_loc' = [dm_loc EXCEPT !.branch = "empty"]
    /\ UNCHANGED <<dm_cfg, dm_disk, dm_started>>
    /\ UNCHANGED notDM

\* lines 303-304: no pre-probe without videos or without a ceiling
DMNoPreCheck ==
    /\ dm_pc = "start"
    /\ dm_md.video_urls # <<>> \/ dm_md.image_urls # <<>>
    /\ ~(dm_md.video_urls # <<>> /\ dm_cfg.max_video_size_mb > 0)
    /\ dm_pc' = "route"
    /\ UNCHANGED <<dm_cfg, dm_md, dm_loc, dm_disk, dm_started>>
    /\ UNCHANGED notDM

\* lines 303-353: size pre-probe of the primary URL of every video group;
\* miss = groups whose probe gives no size
DMPreCheck(miss) ==
    /\ dm_pc = "start"
    /\ dm_md.video_urls # <<>> /\ dm_cfg.max_video_size_mb > 0
    /\ miss \subseteq 1..Len(dm_md.video_urls)
    /\ LET video_urls == dm_md.video_urls
           image_urls == dm_md.image_urls
           video_sizes == [i \in 1..Len(video_urls) |->
                              GetVideoSizeTask(video_urls[i], i \in miss)[1]]
       IN IF PreCheckExceeds(video_sizes, dm_cfg.max_video_size_mb)
          THEN /\ dm_md' = Put(dm_md,
                     [exceeds_max_size |-> TRUE,
                      has_valid_media |-> FALSE,
                      video_sizes |-> video_sizes,
                      max_video_size_mb |-> MaxOrNone(video_sizes),
                      total_video_size_mb |-> SumValid(video_sizes),
                      video_count |-> Len(video_urls),
                      image_count |-> Len(image_urls),
                      failed_video_count |-> Len(video_urls),
                      failed_image_count |-> Len(image_urls),
                      file_paths |-> <<>>,
                      use_local_files |-> FALSE,
                      is_large_media |-> FALSE])
               /\ dm_pc' = "done"
               /\ dm_loc' = [dm_loc EXCEPT !.pre_probe = video_sizes,
                                           !.branch = "pre_probe_reject"]
          ELSE /\ dm_pc' = "route"
               /\ dm_loc' = [dm_loc EXCEPT
                     !.pre_probe = video_sizes,
                     !.pre_check_video_sizes =
                         IF ValidSizes(video_sizes) # {} THEN video_sizes
                         ELSE <<>>]
               /\ UNCHANGED dm_md
    /\ UNCHANGED <<dm_cfg, dm_disk, dm_started>>
    /\ UNCHANGED notDM

\* lines 355-427: pre-download of every media item; dl_fail = items whose
\* download fails, fail = files whose unlink raises in cleanup_files
DMPreDownload ==
    /\ dm_pc = "route"
    /\ UsePreDownload(dm_cfg)
    /\ \E dl_fail \in SUBSET DownloadableItems(
                BuildMediaItems(dm_md.video_urls, dm_md.image_urls)) :
       LET video_urls == dm_md.video_urls
           image_urls == dm_md.image_urls
           M == dm_cfg.max_video_size_mb
           media_items == BuildMediaItems(video_urls, image_urls)
           download_results == PreDownloadMedia(media_items, dl_fail)
           r == ProcessDownloadResults(download_results, video_urls,
                                       image_urls)
           pre == dm_loc.pre_check_video_sizes
           video_sizes ==
               [i \in 1..Len(video_urls) |->
                   IF download_results[i].success
                      /\ download_results[i].size_mb # None
                   THEN download_results[i].size_mb
                   ELSE IF pre # <<>> /\ i <= Len(pre) THEN pre[i]
                   ELSE None]
           max_video_size == MaxOrNone(video_sizes)
           dl_ok == {k \in 1..Len(download_results) :
                        download_results[k].success}
           has_valid_media ==
               \E k \in 1..Len(download_results) :
                   ResultOk(download_results[k])
           md1 == Put(dm_md, [file_paths |-> r.file_paths,
                              failed_video_count |-> r.failed_video_count,
                              failed_image_count |-> r.failed_image_count,
                              video_sizes |-> video_sizes,
                              max_video_size_mb |-> max_video_size,
                              total_video_size_mb |-> SumValid(video_sizes)])
       IN /\ dm_started' = dm_started \cup
                {CachePath(media_items[k].index) : k \in 1..Len(media_items)}
          /\ IF video_urls # <<>> /\ M > 0 /\ max_video_size # None
                /\ max_video_size > M
             THEN /\ \E fail \in SUBSET PathsOf(r.file_paths) :
                        /\ dm_disk' = CleanupFilesList(r.file_paths,
                                    dm_disk \cup PathsOf(r.file_paths), fail)
                        /\ dm_loc' = [dm_loc EXCEPT
                                   !.video_sizes = video_sizes,
                                   !.dl_ok = dl_ok,
                                   !.unlink_failed = fail,
                                   !.branch = "pre_download_reject"]
                  /\ dm_md' = Put(md1, [exceeds_max_size |-> TRUE,
                                        has_valid_media |-> FALSE,
                                        use_local_files |-> FALSE,
                                        file_paths |-> <<>>])
             ELSE /\ dm_disk' = dm_disk \cup PathsOf(r.file_paths)
                  /\ dm_md' = Put(md1, [has_valid_media |-> has_valid_media,
                                        use_local_files |-> has_valid_media,
                                        video_count |-> Len(video_urls),
                                        image_count |-> Len(image_urls),
                                        exceeds_max_size |-> FALSE,
                                        is_large_media |-> FALSE])
                  /\ dm_loc' = [dm_loc EXCEPT !.video_sizes = video_sizes,
                                   !.dl_ok = dl_ok,
                                   !.branch = "pre_download"]
    /\ dm_pc' = "done"
    /\ UNCHANGED dm_cfg
    /\ UNCHANGED notDM

\* lines 429-535: second size probe, validation of the primary image URLs,
\* the no-valid-media return, the ceiling check and the choice of branch
DMProbeValidate(miss) ==
    /\ dm_pc = "route"
    /\ ~UsePreDownload(dm_cfg)
    /\ miss \subseteq 1..Len(dm_md.video_urls)
    /\ LET video_urls == dm_md.video_urls
           image_urls == dm_md.image_urls
           M == dm_cfg.max_video_size_mb
           L == dm_cfg.large_video_threshold_mb
           results == [i \in 1..Len(video_urls) |->
                          GetVideoSizeTask(video_urls[i], i \in miss)]
           video_sizes == [i \in 1..Len(video_urls) |-> results[i][1]]
           video_has_access_denied ==
               \E i \in 1..Len(video_urls) : results[i][2] = 403
           max_video_size == MaxOrNone(video_sizes)
           has_valid_videos == ValidSizes(video_sizes) # {}
           checks == [j \in 1..Len(image_urls) |->
                         ValidateImageTask(image_urls[j])]
           has_valid_images == \E j \in 1..Len(image_urls) : checks[j][1]
           has_access_denied ==
               \E j \in 1..Len(image_urls) :
                   ~checks[j][1] /\ checks[j][2] = 403
           has_valid_media == has_valid_videos \/ has_valid_images
           md1 == Put(dm_md,
                      [video_sizes |-> video_sizes,
                       max_video_size_mb |-> max_video_size,
                       total_video_size_mb |-> SumValid(video_sizes),
                       video_count |-> Len(video_urls),
                       image_count |-> Len(image_urls),
                       has_valid_media |-> has_valid_media,
                       has_access_denied |->
                           (has_access_denied \/ video_has_access_denied)])
           needs_download == NeedsDownload(L, max_video_size)
           loc1 == [dm_loc EXCEPT !.video_sizes = video_sizes,
                                  !.has_valid_videos = has_valid_videos,
                                  !.has_valid_images = has_valid_images]
       IN IF ~has_valid_media
          THEN /\ dm_md' = Put(md1,
                     [exceeds_max_size |-> FALSE,
                      file_paths |-> <<>>,
                      use_local_files |-> FALSE,
                      is_large_media |-> FALSE,
                      failed_video_count |-> Len(video_urls),
                      failed_image_count |-> Len(image_urls)])
               /\ dm_pc' = "done"
               /\ dm_loc' = [loc1 EXCEPT !.branch = "no_valid_media"]
          ELSE IF M > 0 /\ max_video_size # None /\ max_video_size > M
          THEN /\ dm_md' = Put(md1,
                     [exceeds_max_size |-> TRUE,
                      has_valid_media |-> FALSE,
                      max_video_size_mb |-> max_video_size,
                      failed_video_count |-> Len(video_urls),
                      failed_image_count |-> Len(image_urls)])
               /\ dm_pc' = "done"
               /\ dm_loc' = [loc1 EXCEPT !.branch = "probe_reject"]
          ELSE /\ dm_md' = Put(md1, [exceeds_max_size |-> FALSE])
               /\ dm_pc' = IF needs_download /\ dm_cfg.cache_dir_available
                           THEN "large" ELSE "direct"
               /\ dm_loc' = loc1
    /\ UNCHANGED <<dm_cfg, dm_disk, dm_started>>
    /\ UNCHANGED notDM

\* lines 537-630: the videos of a post above the large threshold are
\* downloaded to the cache, then the images to temp files
DMLargeDownload ==
    /\ dm_pc = "large"
    /\ \E dl_fail \in SUBSET DownloadableItems(
                BuildMediaItems(dm_md.video_urls, <<>>)) :
       LET video_urls == dm_md.video_urls
           image_urls == dm_md.image_urls
           M == dm_cfg.max_video_size_mb
           video_media_items == BuildMediaItems(video_urls, <<>>)
           download_results == PreDownloadMedia(video_media_items, dl_fail)
           video_file_paths ==
               [i \in 1..Len(video_urls) |->
                   IF i <= Len(download_results)
                      /\ ResultOk(download_results[i])
                   THEN download_results[i].file_path ELSE None]
           failed_video_count == CountNone(video_file_paths)
           imgs == DownloadImages(image_urls, dm_loc.has_valid_images)
           file_paths == video_file_paths \o imgs.image_file_paths
           download_video_sizes ==
               [i \in 1..Len(video_urls) |->
                   IF download_results[i].success
                      /\ download_results[i].size_mb # None
                   THEN download_results[i].size_mb
                   ELSE IF i <= Len(dm_loc.video_sizes)
                   THEN dm_loc.video_sizes[i] ELSE None]
           dl_ok == {k \in 1..Len(download_results) :
                        download_results[k].success}
           checked == video_urls # <<>> /\ M > 0
                         /\ ValidSizes(download_video_sizes) # {}
           actual_max_video_size == MaxOrNone(download_video_sizes)
           has_valid_media == PathsOf(file_paths) # {}
           md1 == IF checked
                  THEN Put(dm_md,
                        [video_sizes |-> download_video_sizes,
                         max_video_size_mb |-> actual_max_video_size,
                         total_video_size_mb |->
                             SumValid(download_video_sizes)])
                  ELSE dm_md
       IN /\ dm_started' = dm_started
                \cup {CachePath(video_media_items[k].index) :
                         k \in 1..Len(video_media_items)}
                \cup (IF image_urls # <<>> /\ dm_loc.has_valid_images
                      THEN {TempImagePath(j) : j \in 1..Len(image_urls)}
                      ELSE {})
          /\ IF checked /\ actual_max_video_size > M
             THEN /\ \E fail \in SUBSET PathsOf(file_paths) :
                        /\ dm_disk' = CleanupFilesList(file_paths,
                                    dm_disk \cup PathsOf(file_paths), fail)
                        /\ dm_loc' = [dm_loc EXCEPT
                                   !.dl_ok = dl_ok,
                                   !.unlink_failed = fail,
                                   !.branch = "large_reject"]
                  /\ dm_md' = Put(dm_md,
                        [exceeds_max_size |-> TRUE,
                         has_valid_media |-> FALSE,
                         use_local_files |-> FALSE,
                         file_paths |-> <<>>,
                         is_large_media |-> FALSE,
                         video_sizes |-> download_video_sizes,
                         max_video_size_mb |-> actual_max_video_size,
                         failed_video_count |-> Len(video_urls),
                         failed_image_count |-> Len(image_urls)])
             ELSE /\ dm_disk' = dm_disk \cup PathsOf(file_paths)
                  /\ dm_md' = Put(md1,
                        [file_paths |-> file_paths,
                         use_local_files |-> has_valid_media,
                         is_large_media |-> TRUE,
                         failed_video_count |-> failed_video_count,
                         failed_image_count |-> imgs.failed_image_count])
                  /\ dm_loc' = [dm_loc EXCEPT !.dl_ok = dl_ok,
                                                !.branch = "large"]
    /\ dm_pc' = "done"
    /\ UNCHANGED dm_cfg
    /\ UNCHANGED notDM

\* lines 631-656: videos stay direct URLs, the images go to temp files
DMDirect ==
    /\ dm_pc = "direct"
    /\ LET image_urls == dm_md.image_urls
           imgs == DownloadImages(image_urls, dm_loc.has_valid_images)
           file_paths == imgs.image_file_paths
           has_successful_downloads == PathsOf(imgs.image_file_paths) # {}
       IN /\ dm_started' = dm_started
                \cup (IF image_urls # <<>> /\ dm_loc.has_valid_images
                      THEN {TempImagePath(j) : j \in 1..Len(image_urls)}
                      ELSE {})
          /\ dm_disk' = dm_disk \cup PathsOf(file_paths)
          /\ dm_md' = Put(dm_md,
                [file_paths |-> file_paths,
                 use_local_files |-> has_successful_downloads,
                 is_large_media |-> FALSE,
                 failed_video_count |-> CountNone(dm_loc.video_sizes),
                 failed_image_count |-> imgs.failed_image_count,
                 has_valid_media |->
                     (dm_loc.has_valid_videos \/ has_successful_downloads)])
    /\ dm_pc' = "done"
    /\ dm_loc' = [dm_loc EXCEPT !.branch = "direct"]
    /\ UNCHANGED dm_cfg
    /\ UNCHANGED notDM

DMNext ==
    \/ DMEntryEmpty
    \/ DMNoPreCheck
    \/ \E miss \in SUBSET (1..MaxVideos) : DMPreCheck(miss)
    \/ DMPreDownload
    \/ \E miss \in SUBSET (1..MaxVideos) : DMProbeValidate(miss)
    \/ DMLargeDownload
    \/ DMDirect

\* the download manager at rest
DMIdle ==
    /\ dm_pc = "idle"
    /\ dm_cfg = [max_video_size_mb |-> 0, large_video_threshold_mb |-> 0,
                 pre_download_all_media |-> FALSE,
                 cache_dir_available |-> FALSE]
    /\ dm_md = [video_urls |-> <<>>, image_urls |-> <<>>,
                video_force_download |-> FALSE]
    /\ dm_loc = DMLoc0
    /\ dm_disk = {}
    /\ dm_started = {}

(***************************************************************************)
(* Per-group fallback of the handlers: DownloadManager._download_one_image *)
(* (with the gather of _download_images) and batch_download_videos'        *)
(* download_one.  One URL group is downloaded.                             *)
(***************************************************************************)
\* what one download attempt of one URL does: it yields a file ("ok"),
\* returns None ("none") or raises ("raise")
AttemptOutcomes == {"ok", "none", "raise"}

\* the URL groups: every list of at most MaxGroupLen URLs, each URL given by
\* what an attempt on it does
FBGroups ==
    UNION {[1..n -> AttemptOutcomes] : n \in 0..MaxGroupLen}

\* the result reported for the group.  download_one's dict names
\* url_list[0] in its 'url' field whichever URL was used; the image handler
\* returns only the path (url = 0: no URL named)
FBReport(kind, state, group) ==
    [state |-> state,
     url |-> IF kind = "video" /\ group # <<>> THEN 1 ELSE 0]

FBInit ==
    /\ fb_pc = "start"
    /\ fb_kind \in {"image", "video"}
    /\ fb_group \in FBGroups
    /\ fb_i = 1
    /\ fb_attempts = <<>>
    /\ fb_report = [state |-> "pending", url |-> 0]

\* `if not url_list`: an empty group fails without any attempt
FBEmptyGroup ==
    /\ fb_pc = "start"
    /\ fb_group = <<>>
    /\ fb_pc' = "done"
    /\ fb_report' = FBReport(fb_kind, "failed", fb_group)
    /\ UNCHANGED <<fb_kind, fb_group, fb_i, fb_attempts>>
    /\ UNCHANGED notFB

\* entering `for url in url_list`
FBEnterLoop ==
    /\ fb_pc = "start"
    /\ fb_group # <<>>
    /\ fb_pc' = "loop"
    /\ UNCHANGED <<fb_kind, fb_group, fb_i, fb_attempts, fb_report>>
    /\ UNCHANGED notFB

\* one iteration of the loop: the attempt on url_list[fb_i] and what
\* follows it.  A file ends the loop with success.  None moves on to the
\* next URL, and after the last URL the group has failed.  An exception
\* leaves the loop: download_one's `except Exception` returns the failure
\* record; _download_one_image lets it through to the gather of
\* _download_images, which counts the group as failed.
FBAttempt ==
    /\ fb_pc = "loop"
    /\ fb_i <= Len(fb_group)
    /\ fb_attempts' = Append(fb_attempts, fb_i)
    /\ IF fb_group[fb_i] = "ok"
       THEN /\ fb_report' = FBReport(fb_kind, "ok", fb_group)
            /\ fb_pc' = "done"
            /\ UNCHANGED fb_i
       ELSE IF fb_group[fb_i] = "raise"
       THEN /\ fb_report' = FBReport(fb_kind, "failed", fb_group)
            /\ fb_pc' = "done"
            /\ UNCHANGED fb_i
       ELSE /\ fb_i' = fb_i + 1
            /\ UNCHANGED <<fb_pc, fb_report>>
    /\ UNCHANGED <<fb_kind, fb_group>>
    /\ UNCHANGED notFB

\* the loop ran out of URLs: the failure result after the loop
FBExhausted ==
    /\ fb_pc = "loop"
    /\ fb_i > Len(fb_group)
    /\ fb_pc' = "done"
    /\ fb_report' = FBReport(fb_kind, "failed", fb_group)
    /\ UNCHANGED <<fb_kind, fb_group, fb_i, fb_attempts>>
    /\ UNCHANGED notFB

FBNext ==
    \/ FBEmptyGroup
    \/ FBEnterLoop
    \/ FBAttempt
    \/ FBExhausted

\* no group is being downloaded
FBIdle ==
    /\ fb_pc = "idle"
    /\ fb_kind = "none"
    /\ fb_group = <<>>
    /\ fb_i = 0
    /\ fb_attempts = <<>>
    /\ fb_report = [state |-> "pending", url |-> 0]

(***************************************************************************)
(* Range-parallel download_video_to_cache                                  *)
(* (core/downloader/handler/range_video.py).  One video is downloaded; the *)
(* resource behind the URL is the byte string <<1, ..., size>>.            *)
(***************************************************************************)
\* the bytes of a resource of the given size
Body(size) == [k \in 1..size |-> k]

\* num_chunks = (file_size + chunk_size - 1) // chunk_size
NumChunks(file_size, chunk_size) ==
    (file_size + chunk_size - 1) \div chunk_size

\* download_chunk: start = chunk_idx * chunk_size
ChunkStart(chunk_idx, chunk_size) == chunk_idx * chunk_size

\* an end that is not cut at the last byte of the file
ChunkEndUnclamped(chunk_idx, chunk_size, file_size) ==
    ChunkStart(chunk_idx, chunk_size) + chunk_size - 1

\* download_chunk: end = min(start + chunk_size - 1, file_size - 1)
ChunkEnd(chunk_idx, chunk_size, file_size) ==
    IF ChunkStart(chunk_idx, chunk_size) + chunk_size - 1 < file_size - 1
    THEN ChunkStart(chunk_idx, chunk_size) + chunk_size - 1
    ELSE file_size - 1

\* what the server sends for `Range: bytes=start-end`: the slice with 206
\* when it honours the header, the whole resource with 200 when it ignores
\* it, an error status, or the request raises
RangeAnswers == {"206", "200", "status", "raise"}

\* _download_range: the bytes read from a 200 or 206 response, else None
DownloadRange(answer, start, end, size) ==
    IF answer = "206"
    THEN [ok |-> TRUE, data |-> SubSeq(Body(size), start + 1, end + 1)]
    ELSE IF answer = "200"
    THEN [ok |-> TRUE, data |-> Body(size)]
    ELSE [ok |-> FALSE, data |-> <<>>]

\* f.write(chunks_data[i]) for i in range(num_chunks)
RECURSIVE WriteChunks(_, _, _)
WriteChunks(chunks_data, i, num_chunks) ==
    IF i >= num_chunks THEN <<>>
    ELSE chunks_data[i].data \o WriteChunks(chunks_data, i + 1, num_chunks)

\* the calls: size and answering of the resource, chunk_size, max_concurrent
RInputs ==
    [size : 1..MaxFileSize, chunk_size : {1, 2}, max_concurrent : {1, 2}]

\* chunk indexes of the running call
RChunks == 0..(NumChunks(r_in.size, r_in.chunk_size) - 1)

\* the cache file: does it exist, its bytes, who wrote them ("range" path or
\* "plain" streamer), and whether an os.remove of it has raised
NoFile ==
    [exists |-> FALSE, bytes |-> <<>>, by |-> "none", remove_failed |-> FALSE]

RInit ==
    /\ r_pc = "start"
    /\ r_in \in RInputs
    /\ r_chunk = <<>>
    /\ r_file = NoFile
    /\ r_plain = 0
    /\ r_result = "pending"

\* lines 149-165: _get_file_size; without a size, or with a single chunk,
\* the plain streamer is used
RGetFileSize(known) ==
    /\ r_pc = "start"
    /\ IF known /\ NumChunks(r_in.size, r_in.chunk_size) > 1
       THEN /\ r_pc' = "chunks"
            /\ r_chunk' = [i \in RChunks |->
                              [st |-> "waiting", ok |-> FALSE, data |-> <<>>,
                               gets |-> 0]]
       ELSE /\ r_pc' = "plain"
            /\ UNCHANGED r_chunk
    /\ UNCHANGED <<r_in, r_file, r_plain, r_result>>
    /\ UNCHANGED notRange

\* a download_chunk that sends its GET without waiting for a permit
RChunkStartUnbounded(i) ==
    /\ r_pc = "chunks"
    /\ i \in DOMAIN r_chunk
    /\ r_chunk[i].st = "waiting"
    /\ r_chunk' = [r_chunk EXCEPT ![i].st = "inflight",
                                  ![i].gets = r_chunk[i].gets + 1]
    /\ UNCHANGED <<r_pc, r_in, r_file, r_plain, r_result>>
    /\ UNCHANGED notRange

\* download_chunk enters `async with semaphore` and sends its GET
RChunkStart(i) ==
    /\ r_pc = "chunks"
    /\ i \in DOMAIN r_chunk
    /\ r_chunk[i].st = "waiting"
    /\ Cardinality({j \in DOMAIN r_chunk : r_chunk[j].st = "inflight"})
          < r_in.max_concurrent
    /\ r_chunk' = [r_chunk EXCEPT ![i].st = "inflight",
                                  ![i].gets = r_chunk[i].gets + 1]
    /\ UNCHANGED <<r_pc, r_in, r_file, r_plain, r_result>>
    /\ UNCHANGED notRange

\* the GET of chunk i completes and the permit is released
RChunkFinish(i, answer) ==
    /\ r_pc = "chunks"
    /\ i \in DOMAIN r_chunk
    /\ r_chunk[i].st = "inflight"
    /\ LET got == DownloadRange(answer,
                      ChunkStart(i, r_in.chunk_size),
                      ChunkEnd(i, r_in.chunk_size, r_in.size), r_in.size)
       IN r_chunk' = [r_chunk EXCEPT
                         ![i] = [st |-> "done", ok |-> got.ok,
                                 data |-> got.data,
                                 gets |-> r_chunk[i].gets]]
    /\ UNCHANGED <<r_pc, r_in, r_file, r_plain, r_result>>
    /\ UNCHANGED notRange

\* the gather returns and the chunks are assembled whatever failed
RGatherIgnoresFailures ==
    /\ r_pc = "chunks"
    /\ \A i \in DOMAIN r_chunk : r_chunk[i].st = "done"
    /\ r_pc' = "assemble"
    /\ UNCHANGED <<r_in, r_chunk, r_file, r_plain, r_result>>
    /\ UNCHANGED notRange

\* lines 194-221: the gather returns; a failed chunk sends the call to the
\* plain streamer, nothing is retried
RGather ==
    /\ r_pc = "chunks"
    /\ \A i \in DOMAIN r_chunk : r_chunk[i].st = "done"
    /\ r_pc' = IF \E i \in DOMAIN r_chunk : ~r_chunk[i].ok
               THEN "plain" ELSE "assemble"
    /\ UNCHANGED <<r_in, r_chunk, r_file, r_plain, r_result>>
    /\ UNCHANGED notRange

\* lines 223-259: the chunks are written in ascending index order.  An I/O
\* error after `written` chunks (io_error) leaves a truncated file, which
\* the except handler removes unless os.remove raises too (remove_fails);
\* the call then goes to the plain streamer
RAssemble(io_error, written, remove_fails) ==
    /\ r_pc = "assemble"
    /\ written \in 0..(NumChunks(r_in.size, r_in.chunk_size) - 1)
    /\ IF io_error
       THEN /\ r_file' = IF remove_fails
                         THEN [exists |-> TRUE,
                               bytes |-> WriteChunks(r_chunk, 0, written),
                               by |-> "range", remove_failed |-> TRUE]
                         ELSE NoFile
            /\ r_pc' = "plain"
            /\ UNCHANGED r_result
       ELSE /\ written = 0 /\ ~remove_fails
            /\ r_file' = [exists |-> TRUE,
                          bytes |-> WriteChunks(r_chunk, 0,
                              NumChunks(r_in.size, r_in.chunk_size)),
                          by |-> "range", remove_failed |-> FALSE]
            /\ r_pc' = "done"
            /\ r_result' = "range"
    /\ UNCHANGED <<r_in, r_chunk, r_plain>>
    /\ UNCHANGED notRange

\* normal_download called inside the outer try: it streams the resource to
\* the file, returns None, or raises into the outer except
RPlain(outcome) ==
    /\ r_pc = "plain"
    /\ r_plain' = r_plain + 1
    /\ IF outcome = "ok"
       THEN /\ r_file' = [exists |-> TRUE, bytes |-> Body(r_in.size),
                          by |-> "plain",
                          remove_failed |-> r_file.remove_failed]
            /\ r_result' = "plain"
            /\ r_pc' = "done"
       ELSE IF outcome = "none"
       THEN /\ r_result' = "none"
            /\ r_pc' = "done"
            /\ UNCHANGED r_file
       ELSE /\ r_pc' = "except"
            /\ UNCHANGED <<r_file, r_result>>
    /\ UNCHANGED <<r_in, r_chunk>>
    /\ UNCHANGED notRange

\* lines 261-266: normal_download called by the outer except handler; an
\* exception it raises leaves the call
RPlainInExcept(outcome) ==
    /\ r_pc = "except"
    /\ r_plain' = r_plain + 1
    /\ r_pc' = "done"
    /\ IF outcome = "ok"
       THEN /\ r_file' = [exists |-> TRUE, bytes |-> Body(r_in.size),
                          by |-> "plain",
                          remove_failed |-> r_file.remove_failed]
            /\ r_result' = "plain"
       ELSE /\ r_result' = IF outcome = "none" THEN "none" ELSE "raised"
            /\ UNCHANGED r_file
    /\ UNCHANGED <<r_in, r_chunk>>
    /\ UNCHANGED notRange

RNext ==
    \/ \E known \in BOOLEAN : RGetFileSize(known)
    \/ \E i \in 0..MaxFileSize : RChunkStart(i)
    \/ \E i \in 0..MaxFileSize, a \in RangeAnswers : RChunkFinish(i, a)
    \/ RGather
    \/ \E e \in BOOLEAN, w \in 0..MaxFileSize, f \in BOOLEAN :
           RAssemble(e, w, f)
    \/ \E o \in AttemptOutcomes : RPlain(o)
    \/ \E o \in AttemptOutcomes : RPlainInExcept(o)

\* no range download is running
RIdle ==
    /\ r_pc = "idle"
    /\ r_in = [size |-> 1, chunk_size |-> 1, max_concurrent |-> 1]
    /\ r_chunk = <<>>
    /\ r_file = NoFile
    /\ r_plain = 0
    /\ r_result = "pending"

(***************************************************************************)
(* The large-media threshold: the three places that clamp the configured   *)
(* value.  A value is a Python number: an ordinary number x or the float   *)
(* nan, on which every comparison is False.                                *)
(***************************************************************************)
\* core/constants.py: Config.MAX_LARGE_VIDEO_THRESHOLD_MB
MAX_LARGE_VIDEO_THRESHOLD_MB == 100
\* the module-level constant config_manager.py and base_parser.py import
MAX_LARGE_MEDIA_THRESHOLD_MB == 100

Num(x) == [nan |-> FALSE, x |-> x]
NaN == [nan |-> TRUE, x |-> 0]

\* Python's a < b, a <= b on numbers
PyLt(a, b) == ~a.nan /\ ~b.nan /\ a.x < b.x
PyLe(a, b) == ~a.nan /\ ~b.nan /\ a.x <= b.x

\* Python's min(a, b): b if b < a, else a
PyMin(a, b) == IF PyLt(b, a) THEN b ELSE a

\* the values a configuration can hold for large_media_threshold_mb
ThresholdValues ==
    {Num(x) : x \in (0 - MaxThresholdExcess)..
                    (MAX_LARGE_MEDIA_THRESHOLD_MB + MaxThresholdExcess)}
       \cup {NaN}

\* ConfigManager._validate_config: a number below 0 raises
\* ConfigurationError
ValidateConfigRaises(v) == PyLt(v, Num(0))

\* ConfigManager._parse_config: min with the maximum, then `<= 0` gives 0.0
ParseConfig(v) ==
    LET large_media_threshold_mb == PyMin(v, Num(MAX_LARGE_MEDIA_THRESHOLD_MB))
    IN IF PyLe(large_media_threshold_mb, Num(0)) THEN Num(0)
       ELSE large_media_threshold_mb

\* DownloadManager.__init__: `> 0` first, then min with the maximum
DownloadManagerThreshold(v) ==
    IF PyLt(Num(0), v) THEN PyMin(v, Num(MAX_LARGE_VIDEO_THRESHOLD_MB))
    ELSE Num(0)

\* BaseVideoParser.__init__: min with the maximum, then `> 0` keeps it
BaseVideoParserThreshold(v) ==
    LET large_media_threshold_mb == PyMin(v, Num(MAX_LARGE_MEDIA_THRESHOLD_MB))
    IN IF PyLt(Num(0), large_media_threshold_mb)
       THEN large_media_threshold_mb ELSE Num(0)

Unset == [st |-> "unset", val |-> Num(0)]

CfgInit ==
    /\ cf_in \in [v : ThresholdValues, validate : BOOLEAN]
    /\ cf_out = [cm |-> Unset, dm |-> Unset, bp |-> Unset]

\* ConfigManager(config, validate): _validate_config if asked, _parse_config
ConfigManagerInit ==
    /\ cf_out.cm.st = "unset"
    /\ cf_out' = [cf_out EXCEPT !.cm =
            IF cf_in.validate /\ ValidateConfigRaises(cf_in.v)
            THEN [st |-> "raised", val |-> Num(0)]
            ELSE [st |-> "stored", val |-> ParseConfig(cf_in.v)]]
    /\ UNCHANGED cf_in
    /\ UNCHANGED notCfg

\* DownloadManager(large_video_threshold_mb = v)
DownloadManagerInit ==
    /\ cf_out.dm.st = "unset"
    /\ cf_out' = [cf_out EXCEPT !.dm =
            [st |-> "stored", val |-> DownloadManagerThreshold(cf_in.v)]]
    /\ UNCHANGED cf_in
    /\ UNCHANGED notCfg

\* BaseVideoParser(large_media_threshold_mb = v)
BaseVideoParserInit ==
    /\ cf_out.bp.st = "unset"
    /\ cf_out' = [cf_out EXCEPT !.bp =
            [st |-> "stored", val |-> BaseVideoParserThreshold(cf_in.v)]]
    /\ UNCHANGED cf_in
    /\ UNCHANGED notCfg

CfgNext ==
    \/ ConfigManagerInit
    \/ DownloadManagerInit
    \/ BaseVideoParserInit

CfgIdle ==
    /\ cf_in = [v |-> Num(0), validate |-> FALSE]
    /\ cf_out = [cm |-> Unset, dm |-> Unset, bp |-> Unset]

(***************************************************************************)
(* detect_media_type.  A URL is a sequence of tokens, each a piece of text: *)
(* a letter, a digit, a separator, or one extension of each list; every    *)
(* substring the code looks for is a run of whole tokens.                  *)
(***************************************************************************)
UrlTokens == {"x", "1", ".", "_", "?", "#", "jpg", "JPG", "mp4", "m3u8"}

\* url.lower()
Lower(url) ==
    [i \in 1..Len(url) |-> IF url[i] = "JPG" THEN "jpg" ELSE url[i]]

\* text.split(sep)[0]: the text before the first sep
SplitFirst(text, sep) ==
    LET at == {i \in 1..Len(text) : text[i] = sep}
    IN IF at = {} THEN text
       ELSE SubSeq(text, 1, (CHOOSE i \in at : \A j \in at : i <= j) - 1)

\* pat in text
Contains(text, pat) ==
    \E i \in 1..Len(text) :
        /\ i + Len(pat) - 1 <= Len(text)
        /\ SubSeq(text, i, i + Len(pat) - 1) = pat

\* text.endswith(pat)
EndsWith(text, pat) ==
    /\ Len(pat) <= Len(text)
    /\ SubSeq(text, Len(text) - Len(pat) + 1, Len(text)) = pat

\* does the token end in a letter (str.isalpha of its last character)
IsAlpha(token) == token \in {"x", "jpg", "JPG"}

\* lines 37-41: the tests made for one extension of media_types
ExtMatch(url_lower, url_path, ext) ==
    \/ EndsWith(url_lower, <<".", ext>>)
    \/ Contains(url_lower, <<".", ext, "?">>)
    \/ /\ EndsWith(url_path, <<ext>>)
       /\ \/ Len(url_path) = 1
          \/ ~IsAlpha(url_path[Len(url_path) - 1])

\* re.search(r'[._!-](ext)(_|\d|$)', text)
PatternSearch(text, ext) ==
    \E i \in 1..Len(text) :
        /\ text[i] \in {".", "_"}
        /\ i + 1 <= Len(text)
        /\ text[i + 1] = ext
        /\ i + 1 = Len(text) \/ text[i + 2] \in {"_", "1"}

DetectMediaType(url) ==
    IF url = <<>> THEN "video"
    ELSE LET url_lower == Lower(url)
             url_path == SplitFirst(SplitFirst(url_lower, "?"), "#")
         IN IF Contains(url_lower, <<".", "m3u8">>) THEN "m3u8"
            ELSE IF ExtMatch(url_lower, url_path, "jpg") THEN "image"
            ELSE IF ExtMatch(url_lower, url_path, "mp4") THEN "video"
            ELSE IF PatternSearch(url_lower, "jpg") THEN "image"
            ELSE "video"

UInit ==
    /\ \E n \in 0..MaxUrlLen : u_url \in [1..n -> UrlTokens]
    /\ u_out = [first |-> "none", again |-> "none", path |-> "none"]

\* one call of detect_media_type: the first on the URL, a second one on the
\* same URL, or one on the URL's lowercased text before its first '?' or '#'
UDetect(call) ==
    /\ u_out[call] = "none"
    /\ call = "again" => u_out.first # "none"
    /\ u_out' = [u_out EXCEPT ![call] =
            IF call = "path"
            THEN DetectMediaType(
                    SplitFirst(SplitFirst(Lower(u_url), "?"), "#"))
            ELSE DetectMediaType(u_url)]
    /\ UNCHANGED u_url
    /\ UNCHANGED notUrl

UNext == \E call \in {"first", "again", "path"} : UDetect(call)

UIdle ==
    /\ u_url = <<>>
    /\ u_out = [first |-> "none", again |-> "none", path |-> "none"]

(***************************************************************************)
(* Scheduling of the downloads of one process_metadata call.  The media    *)
(* items are the video groups 1..nv followed by the image groups; a task   *)
(* is "new" (not created), "waiting" (created, not yet downloading),       *)
(* "running" (its download is in progress) or "done".                      *)
(***************************************************************************)
ParConfigs ==
    [branch : {"pre", "large", "direct"},  \* lines 355, 537, 631
     max_concurrent : 1..MaxConcurrent,
     nv : 0..MaxVideos,
     ni : 0..MaxParImages,
     has_valid_images : BOOLEAN]

\* the items a branch hands to pre_download_media
SemaphoreItems(cfg) ==
    IF cfg.branch = "pre" THEN 1..(cfg.nv + cfg.ni)
    ELSE IF cfg.branch = "large" THEN 1..cfg.nv
    ELSE {}

\* the image items of the post
ImageItems(cfg) == (cfg.nv + 1)..(cfg.nv + cfg.ni)

\* the items whose download is in progress
Running(st) == {k \in DOMAIN st : st[k] = "running"}

ParInit ==
    /\ p_pc = "start"
    /\ p_cfg \in {c \in ParConfigs :
                    /\ c.nv + c.ni > 0
                    /\ c.branch = "large" => c.nv > 0
                    /\ c.has_valid_images => c.ni > 0}
    /\ p_st = [k \in 1..(p_cfg.nv + p_cfg.ni) |-> "new"]

\* pre_download_media(session, items, cache_dir, max_concurrent): one
\* download_one task per item, gathered
CallPreDownloadMedia ==
    /\ p_pc = "start"
    /\ p_cfg.branch \in {"pre", "large"}
    /\ p_st' = [k \in DOMAIN p_st |->
                  IF k \in SemaphoreItems(p_cfg) THEN "waiting" ELSE p_st[k]]
    /\ p_pc' = "semaphore"
    /\ UNCHANGED p_cfg
    /\ UNCHANGED notPar

\* download_one: `async with semaphore`, granted in the order of the tasks
SemaphoreAcquire(k) ==
    /\ p_pc = "semaphore"
    /\ p_st[k] = "waiting"
    /\ \A j \in 1..(k - 1) : p_st[j] # "waiting"
    /\ Cardinality(Running(p_st)) < p_cfg.max_concurrent
    /\ p_st' = [p_st EXCEPT ![k] = "running"]
    /\ UNCHANGED <<p_pc, p_cfg>>
    /\ UNCHANGED notPar

\* the download of one item ends (file, None or exception)
DownloadEnds(k) ==
    /\ p_st[k] = "running"
    /\ p_st' = [p_st EXCEPT ![k] = "done"]
    /\ UNCHANGED <<p_pc, p_cfg>>
    /\ UNCHANGED notPar

\* asyncio.gather over the download_one tasks returns
PreDownloadReturns ==
    /\ p_pc = "semaphore"
    /\ \A k \in SemaphoreItems(p_cfg) : p_st[k] = "done"
    /\ p_pc' = IF p_cfg.branch = "pre" THEN "done" ELSE "images"
    /\ UNCHANGED <<p_cfg, p_st>>
    /\ UNCHANGED notPar

\* _download_images: one _download_one_image task per image group, gathered
\* without a semaphore; nothing is started without valid images
CallDownloadImages ==
    /\ \/ p_pc = "images"
       \/ p_pc = "start" /\ p_cfg.branch = "direct"
    /\ IF p_cfg.ni > 0 /\ p_cfg.has_valid_images
       THEN /\ p_st' = [k \in DOMAIN p_st |->
                          IF k \in ImageItems(p_cfg) THEN "waiting"
                          ELSE p_st[k]]
            /\ p_pc' = "gather"
       ELSE /\ p_pc' = "done"
            /\ UNCHANGED p_st
    /\ UNCHANGED p_cfg
    /\ UNCHANGED notPar

\* a gathered _download_one_image task starts its download
ImageTaskStarts(k) ==
    /\ p_pc = "gather"
    /\ p_st[k] = "waiting"
    /\ \A j \in 1..(k - 1) : p_st[j] # "waiting"
    /\ p_st' = [p_st EXCEPT ![k] = "running"]
    /\ UNCHANGED <<p_pc, p_cfg>>
    /\ UNCHANGED notPar

\* asyncio.gather over the image tasks returns
DownloadImagesReturns ==
    /\ p_pc = "gather"
    /\ \A k \in ImageItems(p_cfg) : p_st[k] = "done"
    /\ p_pc' = "done"
    /\ UNCHANGED <<p_cfg, p_st>>
    /\ UNCHANGED notPar

ParNext ==
    \/ CallPreDownloadMedia
    \/ \E k \in DOMAIN p_st : SemaphoreAcquire(k)
    \/ \E k \in DOMAIN p_st : DownloadEnds(k)
    \/ PreDownloadReturns
    \/ CallDownloadImages
    \/ \E k \in DOMAIN p_st : ImageTaskStarts(k)
    \/ DownloadImagesReturns

ParIdle ==
    /\ p_pc = "idle"
    /\ p_cfg = [branch |-> "direct", max_concurrent |-> 1, nv |-> 0,
                ni |-> 0, has_valid_images |-> FALSE]
    /\ p_st = <<>>

(***************************************************************************)
(* DownloadManager.process_metadata_list: the loop over the records.  For  *)
(* each record what process_metadata does with it is an input: it returns  *)
(* ("ok"), raises an Exception ("raise"), or the record is empty and comes *)
(* back as it is ("empty").                                                *)
(***************************************************************************)
\* an except branch that appends the record without setting its error
AppendWithoutError(processed_metadata, i, outcome) ==
    Append(processed_metadata,
           [src |-> i, processed |-> outcome = "ok", error |-> FALSE])

\* the record the loop appends for metadata_list[i]: the processed record,
\* or, in the except branch, the input record with metadata['error'] set
AppendProcessed(processed_metadata, i, outcome) ==
    Append(processed_metadata,
           [src |-> i,
            processed |-> outcome = "ok",
            error |-> outcome = "raise"])

MLInit ==
    /\ ml_pc = "loop"
    /\ \E n \in 0..MaxRecords :
          ml_in \in [1..n -> {"ok", "raise", "empty"}]
    /\ ml_out = <<>>

\* lines 700-713: one iteration, try and except included
MLIteration ==
    /\ ml_pc = "loop"
    /\ Len(ml_out) < Len(ml_in)
    /\ ml_out' = AppendProcessed(ml_out, Len(ml_out) + 1,
                                 ml_in[Len(ml_out) + 1])
    /\ UNCHANGED <<ml_pc, ml_in>>
    /\ UNCHANGED notML

\* line 714: return processed_metadata
MLReturn ==
    /\ ml_pc = "loop"
    /\ Len(ml_out) = Len(ml_in)
    /\ ml_pc' = "returned"
    /\ UNCHANGED <<ml_in, ml_out>>
    /\ UNCHANGED notML

MLNext == MLIteration \/ MLReturn

MLIdle ==
    /\ ml_pc = "idle"
    /\ ml_in = <<>>
    /\ ml_out = <<>>

(***************************************************************************)
(* ConfigManager._validate_config.  Each option is given by the class of   *)
(* value the checks tell apart; "absent" means the key is missing and the  *)
(* default is read.                                                        *)
(***************************************************************************)
ValidationConfigs ==
    [max_media_size_mb : {"absent", "str", "neg", "zero", "pos"},
     large_media_threshold_mb : {"absent", "str", "neg", "zero", "pos"},
     max_concurrent_downloads : {"absent", "str", "float", "zero", "pos"},
     twitter_use_image_proxy : BOOLEAN,
     twitter_use_video_proxy : BOOLEAN,
     twitter_proxy_url : {"", "http://", "https://", "socks5://", "ftp://"}]

\* _validate_config: the config_key of the first check that raises
\* ConfigurationError, or "ok"
ValidateConfig(config) ==
    IF config.max_media_size_mb \in {"str", "neg"}
    THEN "media_size_settings.max_media_size_mb"
    ELSE IF config.large_media_threshold_mb \in {"str", "neg"}
    THEN "media_size_settings.large_media_threshold_mb"
    ELSE IF config.max_concurrent_downloads \in {"str", "float", "zero"}
    THEN "download_settings.max_concurrent_downloads"
    ELSE IF /\ \/ config.twitter_use_image_proxy
               \/ config.twitter_use_video_proxy
            /\ config.twitter_proxy_url = ""
    THEN "twitter_proxy_settings.twitter_proxy_url"
    ELSE IF /\ config.twitter_proxy_url # ""
            /\ config.twitter_proxy_url
                  \notin {"http://", "https://", "socks5://"}
    THEN "twitter_proxy_settings.twitter_proxy_url"
    ELSE "ok"

VCInit ==
    /\ vc_config \in ValidationConfigs
    /\ vc_result = "pending"

\* ConfigManager(config, validate=True): _validate_config, then
\* _parse_config unless it raised
ConfigManagerValidated ==
    /\ vc_result = "pending"
    /\ vc_result' = IF ValidateConfig(vc_config) # "ok" THEN "raised"
                    ELSE "parsed"
    /\ UNCHANGED vc_config
    /\ UNCHANGED notVC

VCNext == ConfigManagerValidated

VCIdle ==
    /\ vc_config = [max_media_size_mb |-> "absent",
                    large_media_threshold_mb |-> "absent",
                    max_concurrent_downloads |-> "absent",
                    twitter_use_image_proxy |-> FALSE,
                    twitter_use_video_proxy |-> FALSE,
                    twitter_proxy_url |-> ""]
    /\ vc_result = "idle"

(***************************************************************************)
(* The platform parsers' parse(session, url).  What the network and the    *)
(* page give is an input: the exit the call takes (exit) and the numbers   *)
(* of videos and images found on the page (nv, ni).  A result is a raise,  *)
(* None, or a record given by the set of its keys.                         *)
(***************************************************************************)
Raises == [kind |-> "raise", keys |-> {}]
ReturnsNone == [kind |-> "none", keys |-> {}]
Record(keys) == [kind |-> "record", keys |-> keys]

\* parsers/douyin.py DouyinParser.parse
DouyinParse(exit, nv, ni) ==
    IF exit = "raises" THEN Raises              \* try/finally, no except
    ELSE IF exit = "no_id" THEN ReturnsNone     \* no /note/, /video/ id
    ELSE IF exit = "no_info" THEN ReturnsNone   \* `if not result`
    ELSE IF exit = "gallery"
    THEN IF ni = 0 THEN ReturnsNone             \* `if not image_files`
         ELSE Record({"video_url", "title", "author", "timestamp",
                      "thumb_url", "images", "image_files", "is_gallery"})
    ELSE IF nv = 0 THEN ReturnsNone             \* _parse_video, no URL
         ELSE Record({"video_url", "title", "author", "timestamp",
                      "thumb_url", "direct_url", "file_size_mb"})

\* parsers/kuaishou.py KuaishouParser.parse
KuaishouParse(exit, nv, ni) ==
    IF exit = "raises" THEN Raises
    ELSE IF exit = "no_html" THEN ReturnsNone
    ELSE IF exit = "media" /\ nv + ni > 0
    THEN IF nv > 0
         THEN Record({"video_url", "title", "author", "timestamp",
                      "direct_url"})
         ELSE Record({"video_url", "title", "author", "timestamp",
                      "images", "image_files", "is_gallery"})
    ELSE IF exit = "metadata_only"
    THEN Record({"video_url", "title", "author", "timestamp", "direct_url"})
    ELSE ReturnsNone

\* core/parser/platform/xiaoheihe.py XiaoheiheParser.parse
XiaoheiheParse(exit, nv, ni) ==
    IF exit \in {"raises", "no_appid", "no_nuxt", "no_game", "no_title",
                 "no_intro"}
    THEN Raises
    ELSE IF nv = 0 /\ ni = 0 THEN Raises        \* line 794-796
    ELSE Record({"url", "source_url", "title", "author", "desc",
                 "timestamp", "video_urls", "image_urls", "image_headers",
                 "video_headers", "use_video_proxy", "proxy_url"}
                  \cup (IF nv > 0 THEN {"video_force_download"} ELSE {}))

\* the exits of each parser
ParserExits ==
    [douyin |-> {"raises", "no_id", "no_info", "gallery", "video"},
     kuaishou |-> {"raises", "no_html", "media", "metadata_only", "nothing"},
     xiaoheihe |-> {"raises", "no_appid", "no_nuxt", "no_game", "no_title",
                    "no_intro", "content"}]

PRInit ==
    /\ \E parser \in DOMAIN ParserExits :
       \E exit \in ParserExits[parser] :
       \E nv \in 0..MaxVideos, ni \in 0..MaxVideos :
          pr_in = [parser |-> parser, exit |-> exit, nv |-> nv, ni |-> ni]
    /\ pr_out = [kind |-> "pending", keys |-> {}]

\* one call parser.parse(session, url)
Parse ==
    /\ pr_out.kind = "pending"
    /\ pr_out' =
          IF pr_in.parser = "douyin"
          THEN DouyinParse(pr_in.exit, pr_in.nv, pr_in.ni)
          ELSE IF pr_in.parser = "kuaishou"
          THEN KuaishouParse(pr_in.exit, pr_in.nv, pr_in.ni)
          ELSE XiaoheiheParse(pr_in.exit, pr_in.nv, pr_in.ni)
    /\ UNCHANGED pr_in
    /\ UNCHANGED notPR

PRNext == Parse

PRIdle ==
    /\ pr_in = [parser |-> "none", exit |-> "none", nv |-> 0, ni |-> 0]
    /\ pr_out = [kind |-> "idle", keys |-> {}]

(***************************************************************************)
(* Concurrent requests on one cache file: the auto_parse handlers of the   *)
(* same process download the same media id and index, so all use the file  *)
(* <cache_dir>/<media_id>_<index>.mp4.  A handler runs without interruption*)
(* between two awaits; the actions below are those uninterrupted stretches.*)
(***************************************************************************)
Requests == 1..MaxRequests

CCInit ==
    /\ cc_file = "absent"
    /\ cc_pc = [r \in Requests |-> "start"]
    /\ cc_sent = [r \in Requests |-> "nothing"]

\* _download_large_media_to_cache up to "content = await response.read()":
\* session.get, raise_for_status, the os.path.exists test
CCGetAndTestExists(r) ==
    /\ cc_pc[r] = "start"
    /\ \E response_ok \in BOOLEAN :
         cc_pc' = [cc_pc EXCEPT ![r] =
                     IF ~response_ok THEN "returned_None"
                     ELSE IF cc_file # "absent" THEN "has_path"
                     ELSE "reading"]
    /\ UNCHANGED <<cc_file, cc_sent>>
    /\ UNCHANGED notCC

\* the rest of _download_large_media_to_cache: the read completes, then
\* open(file_path, 'wb') truncates the file and f.write fills it
CCReadAndWrite(r) ==
    /\ cc_pc[r] = "reading"
    /\ \E outcome \in {"written", "read_raises", "write_raises"} :
         /\ cc_file' = CASE outcome = "written" -> "complete"
                         [] outcome = "write_raises" -> "truncated"
                         [] OTHER -> cc_file
         /\ cc_pc' = [cc_pc EXCEPT ![r] =
                        IF outcome = "written" THEN "has_path"
                        ELSE "returned_None"]
    /\ UNCHANGED cc_sent
    /\ UNCHANGED notCC

\* _build_video_node_from_file: None when the file is not there
CCBuildVideoNodeFromFile(r) ==
    /\ cc_pc[r] = "has_path"
    /\ cc_pc' = [cc_pc EXCEPT ![r] =
                   IF cc_file = "absent" THEN "no_node" ELSE "node_built"]
    /\ UNCHANGED <<cc_file, cc_sent>>
    /\ UNCHANGED notCC

\* auto_parse: await event.send(...) of the node; the file is read now
CCSend(r) ==
    /\ cc_pc[r] = "node_built"
    /\ cc_sent' = [cc_sent EXCEPT ![r] = cc_file]
    /\ cc_pc' = [cc_pc EXCEPT ![r] = "sent"]
    /\ UNCHANGED cc_file
    /\ UNCHANGED notCC

\* auto_parse: self._cleanup_files(link_video_files) after the sends
CCCleanupFiles(r) ==
    /\ cc_pc[r] \in {"sent", "no_node"}
    /\ \E unlink_ok \in BOOLEAN :
         cc_file' = IF cc_file # "absent" /\ unlink_ok THEN "absent"
                    ELSE cc_file
    /\ cc_pc' = [cc_pc EXCEPT ![r] = "done"]
    /\ UNCHANGED cc_sent
    /\ UNCHANGED notCC

CCNext ==
    \E r \in Requests :
        \/ CCGetAndTestExists(r)
        \/ CCReadAndWrite(r)
        \/ CCBuildVideoNodeFromFile(r)
        \/ CCSend(r)
        \/ CCCleanupFiles(r)

CCIdle ==
    /\ cc_file = "absent"
    /\ cc_pc = [r \in Requests |-> "done"]
    /\ cc_sent = [r \in Requests |-> "nothing"]

(***************************************************************************)
(* DownloadManager._generate_media_id.  A URL is its path, a string over   *)
(* "/", two digits and a letter (scheme, host and query play no part in    *)
(* the search, the whole URL is what the MD5 is taken of).                 *)
(***************************************************************************)
PathChars == {"/", "1", "2", "a"}
Digits == {"1", "2"}

\* urlparse(url).path of a URL with a host: empty or starting with "/"
UrlPaths ==
    {p \in UNION {[1..n -> PathChars] : n \in 0..MaxPathLen} :
        Len(p) > 0 => p[1] = "/"}

\* path.strip('/'); re.search(r'/(\d+)', path); group(1) or md5(url)[:8]
GenerateMediaId(url) ==
    LET lead == IF \A i \in 1..Len(url) : url[i] = "/" THEN Len(url) + 1
                ELSE CHOOSE i \in 1..Len(url) :
                       url[i] # "/" /\ \A j \in 1..(i - 1) : url[j] = "/"
        trail == IF lead > Len(url) THEN Len(url)
                 ELSE CHOOSE i \in 1..Len(url) :
                        url[i] # "/" /\ \A j \in (i + 1)..Len(url) : url[j] = "/"
        path == IF lead > Len(url) THEN <<>> ELSE SubSeq(url, lead, trail)
        hits == {i \in 1..(Len(path) - 1) :
                    path[i] = "/" /\ path[i + 1] \in Digits}
    IN IF hits = {} THEN [md5_of |-> url]
       ELSE LET i == CHOOSE h \in hits : \A g \in hits : h <= g
                last == CHOOSE e \in (i + 1)..Len(path) :
                          /\ \A j \in (i + 1)..e : path[j] \in Digits
                          /\ e = Len(path) \/ path[e + 1] \notin Digits
            IN [number |-> SubSeq(path, i + 1, last)]

GMInit ==
    /\ gm_url \in UrlPaths
    /\ gm_id = [unset |-> TRUE]

\* media_id = self._generate_media_id(url)
GenerateMediaIdCall ==
    /\ gm_id = [unset |-> TRUE]
    /\ gm_id' = GenerateMediaId(gm_url)
    /\ UNCHANGED gm_url
    /\ UNCHANGED notGM

GMNext == GenerateMediaIdCall

GMIdle ==
    /\ gm_url = <<>>
    /\ gm_id = [idle |-> TRUE]

(***************************************************************************)
(* download_image_to_cache (core/downloader/handler/image.py): the format  *)
(* normalisation after the download.  A file is named by its extension,    *)
(* the base name being the same for the original and the .png.             *)
(***************************************************************************)
ImageExts == {".jpg", ".jpeg", ".png", ".webp", ".gif", ".bmp"}

\* how one run of ffmpeg ends
FfmpegOutcomes == {"rc0", "rc_nonzero", "timeout", "not_found", "exception"}

\* a format test that takes .webp for a supported format
IsSupportedAlsoWebp(file_path, exists) ==
    IF file_path = "None" \/ ~exists THEN FALSE
    ELSE file_path \in {".jpg", ".jpeg", ".png", ".webp"}

\* _is_supported_image_format(file_path)
IsSupportedImageFormat(file_path, exists) ==
    IF file_path = "None" \/ ~exists THEN FALSE
    ELSE file_path \in {".jpg", ".jpeg", ".png"}

\* _convert_image_to_png: a second run with -c:v png when the first one
\* ends with a non-zero return code
ConvertImageToPng(first, second) ==
    IF first = "rc0" THEN TRUE
    ELSE IF first = "rc_nonzero" THEN second = "rc0"
    ELSE FALSE

ICInit ==
    /\ ic_in \in [file_path : ImageExts \cup {"None"},
                  first : FfmpegOutcomes, second : FfmpegOutcomes,
                  remove_ok : BOOLEAN]
    /\ ic_fs = IF ic_in.file_path = "None" THEN {} ELSE {ic_in.file_path}
    /\ ic_out = [unset |-> TRUE]

\* download_image_to_cache, after download_media_from_url gave file_path
DownloadImageToCache ==
    /\ ic_out = [unset |-> TRUE]
    /\ LET file_path == ic_in.file_path
           invoked == /\ file_path # "None"
                      /\ ~IsSupportedImageFormat(file_path, file_path \in ic_fs)
           converted == invoked /\ ConvertImageToPng(ic_in.first, ic_in.second)
           removed == converted /\ file_path \in ic_fs /\ ic_in.remove_ok
       IN /\ ic_fs' = IF converted
                      THEN (IF removed THEN ic_fs \ {file_path} ELSE ic_fs)
                           \cup {".png"}
                      ELSE ic_fs
          /\ ic_out' = [ret |-> IF converted THEN ".png" ELSE file_path,
                        invoked |-> invoked,
                        converted |-> converted]
    /\ UNCHANGED ic_in
    /\ UNCHANGED notIC

ICNext == DownloadImageToCache

ICIdle ==
    /\ ic_in = [idle |-> TRUE]
    /\ ic_fs = {}
    /\ ic_out = [idle |-> TRUE]

(***************************************************************************)
(* Temp files of an image download (parsers/base_parser.py):               *)
(* _retry_download_with_backup_urls calls _download_image_to_file and      *)
(* _move_temp_file_to_cache for one backup URL after the other.  The temp  *)
(* file of the k-th backup URL is named k.                                 *)
(***************************************************************************)
TFInit ==
    /\ tf_in \in [primary_ok : BOOLEAN, backup_urls : 0..MaxBackupUrls]
    /\ tf_pc = "entry"
    /\ tf_i = 1
    /\ tf_temp_file = None
    /\ tf_disk = {}
    /\ tf_created = {}
    /\ tf_promoted = {}
    /\ tf_unlink_raised = {}
    /\ tf_cleanup = <<>>

\* _retry_download_with_backup_urls: the two early returns
TFRetryEntry ==
    /\ tf_pc = "entry"
    /\ tf_pc' = IF tf_in.primary_ok \/ tf_in.backup_urls = 0
                THEN "returned" ELSE "download"
    /\ UNCHANGED <<tf_in, tf_i, tf_temp_file, tf_disk, tf_created,
                   tf_promoted, tf_unlink_raised, tf_cleanup>>
    /\ UNCHANGED notTF

\* _download_image_to_file for backup URL tf_i: the request or the read
\* fails (no file yet), or the temp file is created and temp_file.write
\* raises (None is returned), or the temp file is written and returned
TFDownloadImageToFile ==
    /\ tf_pc = "download"
    /\ tf_i <= tf_in.backup_urls
    /\ \E outcome \in {"request_fails", "write_raises", "written"} :
         /\ tf_disk' = IF outcome = "request_fails" THEN tf_disk
                       ELSE tf_disk \cup {tf_i}
         /\ tf_created' = IF outcome = "request_fails" THEN tf_created
                          ELSE tf_created \cup {tf_i}
         /\ tf_temp_file' = IF outcome = "written" THEN tf_i ELSE None
         /\ tf_pc' = IF outcome = "written" THEN "move" ELSE "download"
         /\ tf_i' = IF outcome = "written" THEN tf_i ELSE tf_i + 1
    /\ UNCHANGED <<tf_in, tf_promoted, tf_unlink_raised, tf_cleanup>>
    /\ UNCHANGED notTF

\* _move_temp_file_to_cache(temp_file, ...) and what the loop does with
\* its result: every path of it unlinks the temp file, and only the one
\* that wrote the cache file returns a path
TFMoveTempFileToCache ==
    /\ tf_pc = "move"
    /\ \E outcome \in {"cache_unavailable", "read_raises", "empty_content",
                       "cache_write_raises", "promoted"},
          unlink_ok \in BOOLEAN, cleanup_unlink_ok \in BOOLEAN :
         LET after_move == IF unlink_ok THEN tf_disk \ {tf_temp_file}
                           ELSE tf_disk
             raised == IF unlink_ok THEN tf_unlink_raised
                       ELSE tf_unlink_raised \cup {tf_temp_file}
             listed == {tf_cleanup[k] : k \in 1..Len(tf_cleanup)} \cap after_move
         IN IF outcome = "promoted"
            THEN /\ tf_promoted' = tf_promoted \cup {tf_temp_file}
                 /\ tf_disk' = IF cleanup_unlink_ok THEN after_move \ listed
                               ELSE after_move
                 /\ tf_unlink_raised' = IF cleanup_unlink_ok THEN raised
                                        ELSE raised \cup listed
                 /\ tf_pc' = "returned"
                 /\ UNCHANGED <<tf_cleanup, tf_i>>
            ELSE /\ tf_disk' = after_move
                 /\ tf_unlink_raised' = raised
                 /\ tf_cleanup' = Append(tf_cleanup, tf_temp_file)
                 /\ tf_i' = tf_i + 1
                 /\ tf_pc' = "download"
                 /\ UNCHANGED tf_promoted
    /\ tf_temp_file' = None
    /\ UNCHANGED <<tf_in, tf_created>>
    /\ UNCHANGED notTF

\* _retry_download_with_backup_urls after the last backup URL: unlink what
\* is listed and still exists, return None
TFRetryCleanupAndReturn ==
    /\ tf_pc = "download"
    /\ tf_i > tf_in.backup_urls
    /\ \E cleanup_unlink_ok \in BOOLEAN :
         LET listed == {tf_cleanup[k] : k \in 1..Len(tf_cleanup)} \cap tf_disk
         IN /\ tf_disk' = IF cleanup_unlink_ok THEN tf_disk \ listed
                          ELSE tf_disk
            /\ tf_unlink_raised' = IF cleanup_unlink_ok THEN tf_unlink_raised
                                   ELSE tf_unlink_raised \cup listed
    /\ tf_pc' = "returned"
    /\ UNCHANGED <<tf_in, tf_i, tf_temp_file, tf_created, tf_promoted,
                   tf_cleanup>>
    /\ UNCHANGED notTF

TFNext ==
    \/ TFRetryEntry
    \/ TFDownloadImageToFile
    \/ TFMoveTempFileToCache
    \/ TFRetryCleanupAndReturn

TFIdle ==
    /\ tf_in = [idle |-> TRUE]
    /\ tf_pc = "returned"
    /\ tf_i = 1
    /\ tf_temp_file = None
    /\ tf_disk = {}
    /\ tf_created = {}
    /\ tf_promoted = {}
    /\ tf_unlink_raised = {}
    /\ tf_cleanup = <<>>

(***************************************************************************)
(* ParserFactory.create_parsers (core/parser_factory.py) over the registry *)
(* of core/parser_registry.py.  The registered parsers are 1..n in         *)
(* registration order (the registry is a dict, which keeps that order).    *)
(***************************************************************************)
PFInit ==
    /\ \E n \in 0..MaxParsers :
         pf_in \in [enable : [1..n -> {"absent", "true", "false"}],
                    constructs : [1..n -> BOOLEAN]]
    /\ pf_out = [unset |-> TRUE]

\* ParserRegistry.create_parser(name, params): the instance, or None when
\* the name is not registered or the factory / the constructor raises
CreateParser(name, registered, constructs) ==
    IF name \notin registered THEN None
    ELSE IF constructs[name] THEN name
    ELSE None

\* ParserFactory.create_parsers(config_manager)
CreateParsers ==
    /\ pf_out = [unset |-> TRUE]
    /\ LET registered_parsers == DOMAIN pf_in.enable
           is_enabled(name) == pf_in.enable[name] # "false"
           Created(name) ==
               /\ is_enabled(name)
               /\ CreateParser(name, registered_parsers, pf_in.constructs) # None
           parsers == SelectSeq([name \in registered_parsers |-> name], Created)
       IN pf_out' = IF parsers = <<>> THEN [raises |-> "ValueError"]
                    ELSE [parsers |-> parsers]
    /\ UNCHANGED pf_in
    /\ UNCHANGED notPF

PFNext == CreateParsers

PFIdle ==
    /\ pf_in = [idle |-> TRUE]
    /\ pf_out = [idle |-> TRUE]

(***************************************************************************)
(* extract_links of the platform parsers.  A text is the sequence of its   *)
(* whitespace-separated words; a word is [kind, id]: the kind says which   *)
(* pattern of the parser matches it, the id tells two links of one kind    *)
(* apart (for douyin note/video/web words it is the numeric item id).      *)
(***************************************************************************)
LinkIds == 1..2

Words(kinds) == ([kind : kinds, id : LinkIds]) \cup {[kind |-> "other", id |-> 1]}

Texts(kinds) == UNION {[1..n -> Words(kinds)] : n \in 0..MaxTextLinks}

\* the words of text of one kind, in text order (re.findall)
FindAll(text, kind) ==
    LET IsKind(w) == w.kind = kind
    IN SelectSeq(text, IsKind)

\* DouyinParser.extract_links: mobile links as found; then note, video and
\* 19-digit web links, each kept when its id is not in seen_ids (a web
\* link is standardized to the video link of its id; a note or video link
\* that the web pattern matches again has its id in seen_ids already)
DouyinExtractLinks(text) ==
    LET matches == FindAll(text, "note") \o FindAll(text, "video")
                       \o FindAll(text, "web")
        scan[k \in 0..Len(matches)] ==
            IF k = 0 THEN [seen_ids |-> {}, links |-> <<>>]
            ELSE LET m == matches[k]
                     before == scan[k - 1]
                 IN IF m.id \in before.seen_ids THEN before
                    ELSE [seen_ids |-> before.seen_ids \cup {m.id},
                          links |-> Append(before.links,
                                      [kind |-> IF m.kind = "web" THEN "video"
                                                ELSE m.kind,
                                       id |-> m.id])]
    IN {FindAll(text, "mobile") \o scan[Len(matches)].links}

\* KuaishouParser.extract_links: short links, then long links, as found
KuaishouExtractLinks(text) ==
    {FindAll(text, "short") \o FindAll(text, "long")}

\* XiaoheiheParser.extract_links: the candidates are a set, which is
\* iterated in an order of its own; "web_noid" links give no appid
XiaoheiheExtractLinks(text) ==
    LET candidates == {text[k] : k \in {j \in 1..Len(text) :
                          text[j].kind \in {"app", "web", "web_noid"}}}
        result == {u \in candidates : u.kind # "web_noid"}
    IN {s \in [1..Cardinality(result) -> result] :
           \A u \in result : \E k \in DOMAIN s : s[k] = u}

ELInit ==
    /\ \/ el_in \in [parser : {"douyin"},
                     text : Texts({"mobile", "note", "video", "web"})]
       \/ el_in \in [parser : {"kuaishou"}, text : Texts({"short", "long"})]
       \/ el_in \in [parser : {"xiaoheihe"},
                     text : Texts({"app", "web", "web_noid"})]
    /\ el_out = [unset |-> TRUE]

\* links = parser.extract_links(text)
ExtractLinks ==
    /\ el_out = [unset |-> TRUE]
    /\ \E links \in CASE el_in.parser = "douyin" -> DouyinExtractLinks(el_in.text)
                      [] el_in.parser = "kuaishou" -> KuaishouExtractLinks(el_in.text)
                      [] OTHER -> XiaoheiheExtractLinks(el_in.text) :
         el_out' = [links |-> links]
    /\ UNCHANGED el_in
    /\ UNCHANGED notEL

ELNext == ExtractLinks

ELIdle ==
    /\ el_in = [idle |-> TRUE]
    /\ el_out = [idle |-> TRUE]

(***************************************************************************)
(* DouyinParser.parse / KuaishouParser.parse on an image gallery, without  *)
(* pre-download: the images are downloaded one after the other, the files  *)
(* to remove on failure are collected in downloaded_files, and the finally *)
(* block of parse removes them when parse ends without a result.  The file *)
(* of image k is named k.                                                  *)
(***************************************************************************)
PGInit ==
    /\ pg_in \in [parser : {"douyin", "kuaishou"}, images : 1..MaxGalleryImages]
    /\ pg_pc = "images"
    /\ pg_idx = 1
    /\ pg_disk = {}
    /\ pg_created = {}
    /\ pg_downloaded_files = {}
    /\ pg_image_files = {}
    /\ pg_unlink_raised = {}
    /\ pg_result = "pending"

\* one round of the loop over the images (douyin.py:656-739,
\* kuaishou.py:646-718): the primary URL gives the file, or a backup URL
\* does, or none does, or an await raises or is cancelled.  Douyin appends
\* to downloaded_files only after a backup URL, Kuaishou after both
PGDownloadImage ==
    /\ pg_pc = "images"
    /\ pg_idx <= pg_in.images
    /\ \E outcome \in {"primary", "backup", "no_file", "raises"} :
         LET got == outcome \in {"primary", "backup"}
             tracked == \/ outcome = "backup"
                        \/ outcome = "primary" /\ pg_in.parser = "kuaishou"
         IN /\ pg_disk' = IF got THEN pg_disk \cup {pg_idx} ELSE pg_disk
            /\ pg_created' = IF got THEN pg_created \cup {pg_idx}
                             ELSE pg_created
            /\ pg_image_files' = IF got THEN pg_image_files \cup {pg_idx}
                                 ELSE pg_image_files
            /\ pg_downloaded_files' = IF tracked
                                      THEN pg_downloaded_files \cup {pg_idx}
                                      ELSE pg_downloaded_files
            /\ pg_pc' = IF outcome = "raises" THEN "finally" ELSE "images"
            /\ pg_result' = IF outcome = "raises" THEN "raised" ELSE pg_result
            /\ pg_idx' = IF outcome = "raises" THEN pg_idx ELSE pg_idx + 1
    /\ UNCHANGED <<pg_in, pg_unlink_raised>>
    /\ UNCHANGED notPG

\* after the last image: no file gives None; otherwise the record is
\* returned and parse forgets the list (downloaded_files = [])
PGParseReturns ==
    /\ pg_pc = "images"
    /\ pg_idx > pg_in.images
    /\ pg_result' = IF pg_image_files = {} THEN "None" ELSE "record"
    /\ pg_downloaded_files' = IF pg_image_files = {} THEN pg_downloaded_files
                              ELSE {}
    /\ pg_pc' = "finally"
    /\ UNCHANGED <<pg_in, pg_idx, pg_disk, pg_created, pg_image_files,
                   pg_unlink_raised>>
    /\ UNCHANGED notPG

\* the finally block of parse: unlink what downloaded_files holds
PGParseFinally ==
    /\ pg_pc = "finally"
    /\ \E raising \in SUBSET (pg_downloaded_files \cap pg_disk) :
         /\ pg_disk' = pg_disk \ (pg_downloaded_files \ raising)
         /\ pg_unlink_raised' = pg_unlink_raised \cup raising
    /\ pg_pc' = "done"
    /\ UNCHANGED <<pg_in, pg_idx, pg_created, pg_downloaded_files,
                   pg_image_files, pg_result>>
    /\ UNCHANGED notPG

PGNext ==
    \/ PGDownloadImage
    \/ PGParseReturns
    \/ PGParseFinally

PGIdle ==
    /\ pg_in = [idle |-> TRUE]
    /\ pg_pc = "done"
    /\ pg_idx = 1
    /\ pg_disk = {}
    /\ pg_created = {}
    /\ pg_downloaded_files = {}
    /\ pg_image_files = {}
    /\ pg_unlink_raised = {}
    /\ pg_result = "pending"

(***************************************************************************)
(* Termination of the gathered downloads.  batch_download_videos,          *)
(* BaseVideoParser._pre_download_media and the chunk loop of the range     *)
(* download_video_to_cache have one shape: a semaphore made for the call,  *)
(* one task per item that does its request inside `async with semaphore`,  *)
(* and a gather over the tasks.  Here the calls are made by parse calls    *)
(* that hold the parser's own semaphore (self.semaphore) meanwhile.        *)
(* asyncio.Semaphore wakes its waiters in the order of their arrival: the  *)
(* parse calls arrive in the order 1, 2, ..., the tasks of a call in the   *)
(* order of the items.                                                     *)
(***************************************************************************)
ParseCalls == 1..MaxParseCalls

TDInit ==
    /\ td_in \in [items : 0..MaxBatchItems,
                  max_concurrent : 1..MaxConcurrent,
                  parser_permits : 1..MaxConcurrent]
    /\ td_pc = [c \in ParseCalls |-> "waiting"]
    /\ td_task = [c \in ParseCalls |-> [k \in 1..td_in.items |-> "new"]]
    /\ td_permits = [c \in ParseCalls |-> 0]
    /\ td_results = [c \in ParseCalls |-> {}]

\* parse: `async with self.semaphore`
TDParseAcquire(c) ==
    /\ td_pc[c] = "waiting"
    /\ \A b \in 1..(c - 1) : td_pc[b] # "waiting"
    /\ Cardinality({b \in ParseCalls : td_pc[b] \in {"parsing", "gathering"}})
          < td_in.parser_permits
    /\ td_pc' = [td_pc EXCEPT ![c] = "parsing"]
    /\ UNCHANGED <<td_in, td_task, td_permits, td_results>>
    /\ UNCHANGED notTD

\* semaphore = asyncio.Semaphore(max_concurrent); one task per item;
\* results = await asyncio.gather(*tasks, return_exceptions=True)
TDGatherStarts(c) ==
    /\ td_pc[c] = "parsing"
    /\ td_pc' = [td_pc EXCEPT ![c] = "gathering"]
    /\ td_task' = [td_task EXCEPT ![c] = [k \in 1..td_in.items |-> "waiting"]]
    /\ UNCHANGED <<td_in, td_permits, td_results>>
    /\ UNCHANGED notTD

\* a task enters `async with semaphore` and sends its request
TDTaskAcquire(c, k) ==
    /\ td_pc[c] = "gathering"
    /\ k \in DOMAIN td_task[c]
    /\ td_task[c][k] = "waiting"
    /\ \A j \in 1..(k - 1) : td_task[c][j] # "waiting"
    /\ td_permits[c] < td_in.max_concurrent
    /\ td_task' = [td_task EXCEPT ![c][k] = "running"]
    /\ td_permits' = [td_permits EXCEPT ![c] = td_permits[c] + 1]
    /\ UNCHANGED <<td_in, td_pc, td_results>>
    /\ UNCHANGED notTD

\* a task that ends without giving its permit back
TDRequestCompletesKeepingPermit(c, k) ==
    /\ td_pc[c] = "gathering"
    /\ k \in DOMAIN td_task[c]
    /\ td_task[c][k] = "running"
    /\ td_task' = [td_task EXCEPT ![c][k] = "done"]
    /\ td_results' = [td_results EXCEPT ![c] = td_results[c] \cup {k}]
    /\ UNCHANGED <<td_in, td_pc, td_permits>>
    /\ UNCHANGED notTD

\* the request of a task completes (data, failure or timeout): the task
\* leaves the `async with` block, which releases the permit, and returns
\* its result
TDRequestCompletes(c, k) ==
    /\ td_pc[c] = "gathering"
    /\ k \in DOMAIN td_task[c]
    /\ td_task[c][k] = "running"
    /\ td_task' = [td_task EXCEPT ![c][k] = "done"]
    /\ td_permits' = [td_permits EXCEPT ![c] = td_permits[c] - 1]
    /\ td_results' = [td_results EXCEPT ![c] = td_results[c] \cup {k}]
    /\ UNCHANGED <<td_in, td_pc>>
    /\ UNCHANGED notTD

\* the gather returns once every task has ended; the download call and
\* then parse return, which releases the parser's semaphore
TDGatherReturns(c) ==
    /\ td_pc[c] = "gathering"
    /\ \A k \in 1..td_in.items : td_task[c][k] = "done"
    /\ td_pc' = [td_pc EXCEPT ![c] = "returned"]
    /\ UNCHANGED <<td_in, td_task, td_permits, td_results>>
    /\ UNCHANGED notTD

TDNext ==
    \E c \in ParseCalls :
        \/ TDParseAcquire(c)
        \/ TDGatherStarts(c)
        \/ \E k \in 1..td_in.items : TDTaskAcquire(c, k)
        \/ \E k \in 1..td_in.items : TDRequestCompletes(c, k)
        \/ TDGatherReturns(c)

\* the event loop runs every task that can run, and every request completes
TDFairness ==
    \A c \in ParseCalls :
        /\ WF_vars(TDParseAcquire(c))
        /\ WF_vars(TDGatherStarts(c))
        /\ WF_vars(TDGatherReturns(c))
        /\ \A k \in 1..MaxBatchItems :
              /\ WF_vars(TDTaskAcquire(c, k))
              /\ WF_vars(TDRequestCompletes(c, k))

TDIdle ==
    /\ td_in = [items |-> 0, max_concurrent |-> 1, parser_permits |-> 1]
    /\ td_pc = [c \in ParseCalls |-> "returned"]
    /\ td_task = [c \in ParseCalls |-> <<>>]
    /\ td_permits = [c \in ParseCalls |-> 0]
    /\ td_results = [c \in ParseCalls |-> {}]

(***************************************************************************)
(* ParserRegistry (core/parser_registry.py).  The registry dict is a       *)
(* function from the names to a descriptor or "absent"; reg_map is the map *)
(* of the specification, a set of <<name, descriptor>> pairs, kept beside  *)
(* it to compare the two.                                                  *)
(***************************************************************************)
ParserNames == 1..MaxNames

\* ParserInfo: the parser class and the requires_proxy flag
ParserInfos == [parser_class : {"A", "B"}, requires_proxy : BOOLEAN]

EmptyRegistry == [name \in ParserNames |-> [absent |-> TRUE]]

\* cls(): __new__ makes the one instance with an empty dict at the first
\* call and hands out that instance ever after
Instance(created, registry) ==
    IF created THEN registry ELSE EmptyRegistry

\* ParserRegistry.get(name): instance._registry.get(name)
Get(registry, name) ==
    IF registry[name] = [absent |-> TRUE] THEN [none |-> TRUE] ELSE registry[name]

\* ParserRegistry.is_registered(name): name in instance._registry
IsRegistered(registry, name) == registry[name] # [absent |-> TRUE]

RegInit ==
    /\ reg_instance = FALSE
    /\ reg_registry = EmptyRegistry
    /\ reg_map = {}
    /\ reg_got = [taken |-> FALSE]

\* ParserRegistry.register(name, parser_class, requires_proxy, factory)
Register(name, info) ==
    /\ reg_registry' = [Instance(reg_instance, reg_registry) EXCEPT ![name] = info]
    /\ reg_instance' = TRUE
    /\ reg_map' = {p \in reg_map : p[1] # name} \cup {<<name, info>>}
    /\ UNCHANGED reg_got
    /\ UNCHANGED notReg

\* ParserRegistry.unregister(name)
Unregister(name) ==
    /\ reg_registry' =
          LET registry == Instance(reg_instance, reg_registry)
          IN IF registry[name] # [absent |-> TRUE]
             THEN [registry EXCEPT ![name] = [absent |-> TRUE]]
             ELSE registry
    /\ reg_instance' = TRUE
    /\ reg_map' = {p \in reg_map : p[1] # name}
    /\ UNCHANGED reg_got
    /\ UNCHANGED notReg

\* ParserRegistry.clear()
Clear ==
    /\ reg_registry' = EmptyRegistry
    /\ reg_instance' = TRUE
    /\ reg_map' = {}
    /\ UNCHANGED reg_got
    /\ UNCHANGED notReg

\* a get_all that hands out the registry dict itself
GetAllWithoutCopy ==
    /\ reg_got' = [taken |-> TRUE, same_dict |-> TRUE,
                   dict |-> Instance(reg_instance, reg_registry)]
    /\ reg_registry' = Instance(reg_instance, reg_registry)
    /\ reg_instance' = TRUE
    /\ UNCHANGED reg_map
    /\ UNCHANGED notReg

\* ParserRegistry.get_all(): instance._registry.copy()
GetAll ==
    /\ reg_got' = [taken |-> TRUE, same_dict |-> FALSE,
                   dict |-> Instance(reg_instance, reg_registry)]
    /\ reg_registry' = Instance(reg_instance, reg_registry)
    /\ reg_instance' = TRUE
    /\ UNCHANGED reg_map
    /\ UNCHANGED notReg

\* the caller changes the dict get_all gave it: a dict that is the
\* registry's own changes the registry with it
ModifyResultOfGetAll(name, value) ==
    /\ reg_got.taken
    /\ reg_got.dict[name] # value
    /\ reg_got' = [reg_got EXCEPT !.dict[name] = value]
    /\ reg_registry' = IF reg_got.same_dict
                       THEN [reg_registry EXCEPT ![name] = value]
                       ELSE reg_registry
    /\ UNCHANGED <<reg_instance, reg_map>>
    /\ UNCHANGED notReg

RegNext ==
    \/ \E name \in ParserNames, info \in ParserInfos : Register(name, info)
    \/ \E name \in ParserNames : Unregister(name)
    \/ Clear
    \/ GetAll
    \/ \E name \in ParserNames, value \in ParserInfos \cup {[absent |-> TRUE]} :
          ModifyResultOfGetAll(name, value)

RegIdle ==
    /\ reg_instance = FALSE
    /\ reg_registry = EmptyRegistry
    /\ reg_map = {}
    /\ reg_got = [taken |-> FALSE]

(***************************************************************************)
(* Specifications: one per component, the other components at rest.        *)
(***************************************************************************)
\* the resource manager at rest, nothing on its disk
RMIdle ==
    /\ rm_temp = {}
    /\ rm_cache = {}
    /\ rm_cleaned = FALSE
    /\ disk = {}
    /\ rm_scope = "idle"
    /\ rm_hist = RMHist0

InitRM == RMInit /\ SIdle /\ DMIdle /\ FBIdle /\ RIdle /\ CfgIdle /\ UIdle
              /\ ParIdle
              /\ MLIdle
              /\ VCIdle
              /\ PRIdle
              /\ CCIdle
              /\ GMIdle
              /\ ICIdle
              /\ TFIdle
              /\ PFIdle
              /\ ELIdle
              /\ PGIdle
              /\ TDIdle
              /\ RegIdle

SpecRM == InitRM /\ [][RMNext]_vars

InitSend == SInit /\ DMIdle /\ FBIdle /\ RIdle /\ CfgIdle /\ UIdle
              /\ ParIdle
              /\ MLIdle
              /\ VCIdle
              /\ PRIdle
              /\ CCIdle
              /\ GMIdle
              /\ ICIdle
              /\ TFIdle
              /\ PFIdle
              /\ ELIdle
              /\ PGIdle
              /\ TDIdle
              /\ RegIdle

SpecSend == InitSend /\ [][SNext]_vars

InitDM == DMInit /\ RMIdle /\ SIdle /\ FBIdle /\ RIdle /\ CfgIdle /\ UIdle
              /\ ParIdle
              /\ MLIdle
              /\ VCIdle
              /\ PRIdle
              /\ CCIdle
              /\ GMIdle
              /\ ICIdle
              /\ TFIdle
              /\ PFIdle
              /\ ELIdle
              /\ PGIdle
              /\ TDIdle
              /\ RegIdle

SpecDM == InitDM /\ [][DMNext]_vars

InitFB == FBInit /\ RMIdle /\ SIdle /\ DMIdle /\ RIdle /\ CfgIdle /\ UIdle
              /\ ParIdle
              /\ MLIdle
              /\ VCIdle
              /\ PRIdle
              /\ CCIdle
              /\ GMIdle
              /\ ICIdle
              /\ TFIdle
              /\ PFIdle
              /\ ELIdle
              /\ PGIdle
              /\ TDIdle
              /\ RegIdle

SpecFB == InitFB /\ [][FBNext]_vars

InitRange == RInit /\ RMIdle /\ SIdle /\ DMIdle /\ FBIdle /\ CfgIdle /\ UIdle
              /\ ParIdle
              /\ MLIdle
              /\ VCIdle
              /\ PRIdle
              /\ CCIdle
              /\ GMIdle
              /\ ICIdle
              /\ TFIdle
              /\ PFIdle
              /\ ELIdle
              /\ PGIdle
              /\ TDIdle
              /\ RegIdle

SpecRange == InitRange /\ [][RNext]_vars

InitCfg == CfgInit /\ RMIdle /\ SIdle /\ DMIdle /\ FBIdle /\ RIdle /\ UIdle
              /\ ParIdle
              /\ MLIdle
              /\ VCIdle
              /\ PRIdle
              /\ CCIdle
              /\ GMIdle
              /\ ICIdle
              /\ TFIdle
              /\ PFIdle
              /\ ELIdle
              /\ PGIdle
              /\ TDIdle
              /\ RegIdle

SpecCfg == InitCfg /\ [][CfgNext]_vars

InitUrl == UInit /\ RMIdle /\ SIdle /\ DMIdle /\ FBIdle /\ RIdle
              /\ CfgIdle /\ ParIdle
              /\ MLIdle
              /\ VCIdle
              /\ PRIdle
              /\ CCIdle
              /\ GMIdle
              /\ ICIdle
              /\ TFIdle
              /\ PFIdle
              /\ ELIdle
              /\ PGIdle
              /\ TDIdle
              /\ RegIdle

SpecUrl == InitUrl /\ [][UNext]_vars

InitPar == ParInit /\ RMIdle /\ SIdle /\ DMIdle /\ FBIdle /\ RIdle
              /\ CfgIdle /\ UIdle
              /\ MLIdle
              /\ VCIdle
              /\ PRIdle
              /\ CCIdle
              /\ GMIdle
              /\ ICIdle
              /\ TFIdle
              /\ PFIdle
              /\ ELIdle
              /\ PGIdle
              /\ TDIdle
              /\ RegIdle

SpecPar == InitPar /\ [][ParNext]_vars

InitML == MLInit
              /\ RMIdle
              /\ SIdle
              /\ DMIdle
              /\ FBIdle
              /\ RIdle
              /\ CfgIdle
              /\ UIdle
              /\ ParIdle
              /\ VCIdle
              /\ PRIdle
              /\ CCIdle
              /\ GMIdle
              /\ ICIdle
              /\ TFIdle
              /\ PFIdle
              /\ ELIdle
              /\ PGIdle
              /\ TDIdle
              /\ RegIdle

SpecML == InitML /\ [][MLNext]_vars

InitVC == VCInit
              /\ RMIdle
              /\ SIdle
              /\ DMIdle
              /\ FBIdle
              /\ RIdle
              /\ CfgIdle
              /\ UIdle
              /\ ParIdle
              /\ MLIdle
              /\ PRIdle
              /\ CCIdle
              /\ GMIdle
              /\ ICIdle
              /\ TFIdle
              /\ PFIdle
              /\ ELIdle
              /\ PGIdle
              /\ TDIdle
              /\ RegIdle

SpecVC == InitVC /\ [][VCNext]_vars

InitPR == PRInit
              /\ RMIdle
              /\ SIdle
              /\ DMIdle
              /\ FBIdle
              /\ RIdle
              /\ CfgIdle
              /\ UIdle
              /\ ParIdle
              /\ MLIdle
              /\ VCIdle
              /\ CCIdle
              /\ GMIdle
              /\ ICIdle
              /\ TFIdle
              /\ PFIdle
              /\ ELIdle
              /\ PGIdle
              /\ TDIdle
              /\ RegIdle

SpecPR == InitPR /\ [][PRNext]_vars

InitCC == CCInit
              /\ RMIdle
              /\ SIdle
              /\ DMIdle
              /\ FBIdle
              /\ RIdle
              /\ CfgIdle
              /\ UIdle
              /\ ParIdle
              /\ MLIdle
              /\ PRIdle
              /\ VCIdle
              /\ GMIdle
              /\ ICIdle
              /\ TFIdle
              /\ PFIdle
              /\ ELIdle
              /\ PGIdle
              /\ TDIdle
              /\ RegIdle

SpecCC == InitCC /\ [][CCNext]_vars

InitGM == GMInit
              /\ RMIdle
              /\ SIdle
              /\ DMIdle
              /\ FBIdle
              /\ RIdle
              /\ CfgIdle
              /\ UIdle
              /\ ParIdle
              /\ CCIdle
              /\ MLIdle
              /\ PRIdle
              /\ VCIdle
              /\ ICIdle
              /\ TFIdle
              /\ PFIdle
              /\ ELIdle
              /\ PGIdle
              /\ TDIdle
              /\ RegIdle

SpecGM == InitGM /\ [][GMNext]_vars

InitIC == ICInit
              /\ RMIdle
              /\ SIdle
              /\ DMIdle
              /\ FBIdle
              /\ RIdle
              /\ CfgIdle
              /\ UIdle
              /\ ParIdle
              /\ CCIdle
              /\ GMIdle
              /\ MLIdle
              /\ PRIdle
              /\ VCIdle
              /\ TFIdle
              /\ PFIdle
              /\ ELIdle
              /\ PGIdle
              /\ TDIdle
              /\ RegIdle

SpecIC == InitIC /\ [][ICNext]_vars

InitTF == TFInit
              /\ RMIdle
              /\ SIdle
              /\ DMIdle
              /\ FBIdle
              /\ RIdle
              /\ CfgIdle
              /\ UIdle
              /\ ParIdle
              /\ CCIdle
              /\ GMIdle
              /\ ICIdle
              /\ MLIdle
              /\ PRIdle
              /\ VCIdle
              /\ PFIdle
              /\ ELIdle
              /\ PGIdle
              /\ TDIdle
              /\ RegIdle

SpecTF == InitTF /\ [][TFNext]_vars

InitPF == PFInit
              /\ RMIdle
              /\ SIdle
              /\ DMIdle
              /\ FBIdle
              /\ RIdle
              /\ CfgIdle
              /\ UIdle
              /\ ParIdle
              /\ CCIdle
              /\ GMIdle
              /\ ICIdle
              /\ MLIdle
              /\ PRIdle
              /\ TFIdle
              /\ VCIdle
              /\ ELIdle
              /\ PGIdle
              /\ TDIdle
              /\ RegIdle

SpecPF == InitPF /\ [][PFNext]_vars

InitEL == ELInit
              /\ RMIdle
              /\ SIdle
              /\ DMIdle
              /\ FBIdle
              /\ RIdle
              /\ CfgIdle
              /\ UIdle
              /\ ParIdle
              /\ CCIdle
              /\ GMIdle
              /\ ICIdle
              /\ MLIdle
              /\ PFIdle
              /\ PRIdle
              /\ TFIdle
              /\ VCIdle
              /\ PGIdle
              /\ TDIdle
              /\ RegIdle

SpecEL == InitEL /\ [][ELNext]_vars

InitPG == PGInit
              /\ RMIdle
              /\ SIdle
              /\ DMIdle
              /\ FBIdle
              /\ RIdle
              /\ CfgIdle
              /\ UIdle
              /\ ParIdle
              /\ CCIdle
              /\ ELIdle
              /\ GMIdle
              /\ ICIdle
              /\ MLIdle
              /\ PFIdle
              /\ PRIdle
              /\ TFIdle
              /\ VCIdle
              /\ TDIdle
              /\ RegIdle

SpecPG == InitPG /\ [][PGNext]_vars

InitTD == TDInit
              /\ RMIdle
              /\ SIdle
              /\ DMIdle
              /\ FBIdle
              /\ RIdle
              /\ CfgIdle
              /\ UIdle
              /\ ParIdle
              /\ CCIdle
              /\ ELIdle
              /\ GMIdle
              /\ ICIdle
              /\ MLIdle
              /\ PFIdle
              /\ PGIdle
              /\ PRIdle
              /\ TFIdle
              /\ VCIdle
              /\ RegIdle

SpecTD == InitTD /\ [][TDNext]_vars /\ TDFairness

InitReg == RegInit
              /\ RMIdle
              /\ SIdle
              /\ DMIdle
              /\ FBIdle
              /\ RIdle
              /\ CfgIdle
              /\ UIdle
              /\ ParIdle
              /\ CCIdle
              /\ ELIdle
              /\ GMIdle
              /\ ICIdle
              /\ MLIdle
              /\ PFIdle
              /\ PGIdle
              /\ PRIdle
              /\ TDIdle
              /\ TFIdle
              /\ VCIdle

SpecReg == InitReg /\ [][RegNext]_vars

(***************************************************************************)
(* Claims about ResourceManager (checked under SpecRM)                     *)
(***************************************************************************)

\* C7: after scope exit (normal or exceptional) every path that was still
\* registered when the scope was left has been handed to the unlink loop;
\* unlink failures are only logged.  Stated for every sequence of register
\* and cleanup calls made inside the scope, cleanup_all included.
C7_ScopeExitUnlinksRegistered ==
    rm_scope = "exited" => rm_hist.exit_missed = {}

\* C8: cleanup_all is idempotent.  When cleanup_all is called twice in a row
\* on a manager that had not been cleaned before, the second call returns 0
\* and unlinks nothing, get_stats is the same after the second call as after
\* the first, and every registered file that existed has been unlinked
\* exactly once (or, if os.unlink raised for it, not at all and the failure
\* was logged); no other file was unlinked.
C8_CleanupAllIdempotent ==
    rm_hist.consec >= 2 =>
        /\ rm_hist.ret = 0
        /\ rm_hist.last_unl = {}
        /\ GetStats(rm_temp, rm_cache, rm_cleaned) = rm_hist.stats_prev
        /\ rm_hist.fresh =>
              \A p \in RealPaths :
                 IF p \in rm_hist.reg0 /\ p \in rm_hist.disk0
                 THEN \/ rm_hist.call_unl[p] = 1 /\ p \notin disk
                      \/ /\ rm_hist.call_unl[p] = 0
                         /\ p \in disk
                         /\ p \in rm_hist.failed
                 ELSE rm_hist.call_unl[p] = 0

\* C8 witness: two cleanup_all calls in a row on a fresh manager that had
\* registered paths, the first of which unlinked a file.
C8_Witness ==
    /\ rm_hist.consec >= 2
    /\ rm_hist.fresh
    /\ \E p \in RealPaths : rm_hist.call_unl[p] = 1
    /\ rm_hist.reg0 # {}

\* C9: the temp set and the cache set of a ResourceManager never share a path.
C9_TempCacheDisjoint ==
    rm_temp \cap rm_cache = {}

(***************************************************************************)
(* Claims about the delivery of a request (checked under SpecSend)         *)
(***************************************************************************)

\* C5: while the links of a request are delivered one after the other, a
\* file is unlinked by the sender only after the nodes of the link that owns
\* it have been sent: no file of a link still waiting for delivery is
\* unlinked during the delivery and cleanup of an earlier link.
C5_UnlinkOnlyAfterOwnDelivery ==
    s_obs.premature = {}

\* C6: when a request has completed (sending succeeded or raised part-way),
\* with process_and_send inside a ResourceManager scope or with auto_parse,
\* no temp file of the request is left on disk and every cache file left
\* belongs to a link that was delivered (files whose os.unlink itself
\* raised are left out of the count).
C6_NoLeftoverFiles ==
    (s_pc = "done" /\ s_cfg.flow \in {"rm", "main"}) =>
        \A p \in disk \ s_obs.failed :
            ~IsTempPath(p) /\ Owner(p) \in s_obs.delivered

\* C36: in send_unpacked_results an exception of event.send while the nodes
\* of a link are delivered does not stop the loop: the loop is never left
\* by such an exception (the link just attempted is the one whose nodes
\* were not all sent) while later links are still to be attempted.
C36_NodeSendErrorDoesNotStopLoop ==
    ~ /\ s_cfg.flow \in {"rm", "plain"}
      /\ ~s_cfg.pack
      /\ s_pc = "raised"
      /\ (s_idx - 1) \in s_obs.sent \ s_obs.delivered
      /\ s_idx <= Len(s_links)

(***************************************************************************)
(* Claims about DownloadManager.process_metadata (checked under SpecDM)    *)
(***************************************************************************)

\* C1: with a ceiling M > 0, whenever the size pre-probe measured for some
\* video group a size strictly above M, the call has returned without
\* starting any download (nothing written to the cache or to temp files) and
\* the record has exceeds_max_size = true, has_valid_media = false and an
\* empty file_paths.
C1_PreProbeRejectsWithoutDownload ==
    (/\ dm_cfg.max_video_size_mb > 0
     /\ \E i \in 1..Len(dm_loc.pre_probe) :
            /\ dm_loc.pre_probe[i] # None
            /\ dm_loc.pre_probe[i] > dm_cfg.max_video_size_mb)
    => /\ dm_pc = "done"
       /\ dm_started = {}
       /\ dm_disk = {}
       /\ dm_md.exceeds_max_size = TRUE
       /\ dm_md.has_valid_media = FALSE
       /\ dm_md.file_paths = <<>>

\* C1 witness: a post with two video groups and an image group was rejected
\* by the pre-probe although one of its videos was measured within M.
C1_Witness ==
    /\ dm_pc = "done"
    /\ dm_loc.branch = "pre_probe_reject"
    /\ Len(dm_md.video_urls) = 2
    /\ dm_md.image_urls # <<>>
    /\ \E i \in 1..2 : /\ dm_loc.pre_probe[i] # None
                        /\ dm_loc.pre_probe[i] <= dm_cfg.max_video_size_mb
    /\ \E i \in 1..2 : dm_loc.pre_probe[i] > dm_cfg.max_video_size_mb

\* C2: in every returned record len(file_paths) is 0 or
\* len(video_urls) + len(image_urls), and a non-empty file_paths is aligned
\* with the video groups followed by the image groups: slot k is null or the
\* file of the k-th group.
C2_FilePathsAligned ==
    (dm_pc = "done" /\ "file_paths" \in DOMAIN dm_md) =>
        LET fp == dm_md.file_paths
            nv == Len(dm_md.video_urls)
            ni == Len(dm_md.image_urls)
        IN \/ Len(fp) = 0
           \/ /\ Len(fp) = nv + ni
              /\ \A k \in 1..Len(fp) :
                    \/ fp[k] = None
                    \/ fp[k] = CachePath(k)
                    \/ k > nv /\ fp[k] = TempImagePath(k - nv)

\* C3: pre-download off, a post whose only media are image groups: for an
\* image group whose first URL answers 403 and a later URL answers 200, the
\* returned record has a downloaded file for that group and does not set
\* has_access_denied.
C3_ImageFallbackAfter403 ==
    (/\ dm_pc = "done"
     /\ ~dm_cfg.pre_download_all_media
     /\ dm_md.video_urls = <<>>) =>
        \A j \in 1..Len(dm_md.image_urls) :
            (/\ dm_md.image_urls[j][1] = 403
             /\ \E i \in 2..Len(dm_md.image_urls[j]) :
                    dm_md.image_urls[j][i] = 200)
            => /\ TempImagePath(j) \in dm_disk
               /\ TempImagePath(j) \in PathsOf(dm_md.file_paths)
               /\ dm_md.has_access_denied = FALSE

\* C12: a record whose videos carry video_force_download never forwards a
\* video as a direct URL: in a returned record with valid media, every video
\* group still listed in video_urls has its downloaded cache file in its
\* slot of file_paths (a video that could not be pre-downloaded is omitted).
C12_ForcedVideoNeverDirect ==
    (/\ dm_pc = "done"
     /\ dm_md.video_force_download
     /\ "has_valid_media" \in DOMAIN dm_md
     /\ dm_md.has_valid_media) =>
        \A i \in 1..Len(dm_md.video_urls) :
            /\ "file_paths" \in DOMAIN dm_md
            /\ i <= Len(dm_md.file_paths)
            /\ dm_md.file_paths[i] = CachePath(i)
            /\ CachePath(i) \in dm_disk

\* C13: cache_dir_available is fixed at construction; while it is false no
\* download into the cache is started, no file is written under the cache
\* directory, and the returned record holds no cache path (videos stay
\* direct URLs).
C13_UnavailableCacheNeverUsed ==
    /\ [](~dm_cfg.cache_dir_available =>
            LET cache == {CachePath(k) :
                            k \in 1..(Len(dm_md.video_urls)
                                        + Len(dm_md.image_urls))}
            IN /\ dm_started \cap cache = {}
               /\ dm_disk \cap cache = {}
               /\ dm_pc # "large"
               /\ (dm_pc = "done" /\ "file_paths" \in DOMAIN dm_md) =>
                     PathsOf(dm_md.file_paths) \cap cache = {})
    /\ [][dm_cfg'.cache_dir_available = dm_cfg.cache_dir_available]_vars

\* C13 witness: with the cache unavailable, a post asking for pre-download
\* whose probed video is above the large threshold was returned through the
\* direct-URL branch with an image in a temp file.
C13_Witness ==
    /\ dm_pc = "done"
    /\ ~dm_cfg.cache_dir_available
    /\ dm_cfg.pre_download_all_media
    /\ dm_cfg.large_video_threshold_mb > 0
    /\ dm_loc.branch = "direct"
    /\ dm_md.max_video_size_mb > dm_cfg.large_video_threshold_mb
    /\ dm_md.has_valid_media
    /\ dm_disk # {}

\* C14: pre-download off, cache available, record not size-exceeded.  With
\* L > 0 and the largest probed size strictly above L, a download of every
\* video group into the cache was started, is_large_media is true and the
\* video slots of file_paths hold the cache path of their group, or null for
\* a group whose download failed.  With L = 0 no download into the cache is
\* ever started.
C14_LargeThresholdDownloads ==
    (~dm_cfg.pre_download_all_media /\ dm_cfg.cache_dir_available) =>
        LET L == dm_cfg.large_video_threshold_mb
            nv == Len(dm_md.video_urls)
        IN /\ (/\ dm_pc = "done"
               /\ L > 0
               /\ MaxOrNone(dm_loc.video_sizes) > L
               /\ ~dm_md.exceeds_max_size)
              => /\ dm_md.is_large_media = TRUE
                 /\ Len(dm_md.file_paths) >= nv
                 /\ \A i \in 1..nv :
                       /\ CachePath(i) \in dm_started
                       /\ \/ dm_md.file_paths[i] = None
                             /\ CachePath(i) \notin dm_disk
                          \/ dm_md.file_paths[i] = CachePath(i)
                             /\ CachePath(i) \in dm_disk
           /\ L = 0 =>
                 /\ dm_pc # "large"
                 /\ \A i \in 1..nv : CachePath(i) \notin dm_started

\* C14 witness: a post with two videos went through the large-video branch;
\* one video is in the cache, the download of the other failed.
C14_Witness ==
    /\ dm_pc = "done"
    /\ dm_loc.branch = "large"
    /\ dm_cfg.large_video_threshold_mb > 0
    /\ Len(dm_md.video_urls) = 2
    /\ \E i, j \in 1..2 : /\ dm_md.file_paths[i] = CachePath(i)
                           /\ dm_md.file_paths[j] = None
    /\ dm_md.is_large_media

\* the video items of the post whose download succeeded with an actual size
\* above the ceiling M
OversizeDownloaded ==
    {k \in dm_loc.dl_ok :
        /\ k <= Len(dm_md.video_urls)
        /\ ItemSize(BuildMediaItems(dm_md.video_urls,
                                    dm_md.image_urls)[k])
              > dm_cfg.max_video_size_mb}

\* C15: pre-download mode with a ceiling M > 0: when process_metadata returns
\* after a downloaded video turned out strictly larger than M, every file
\* downloaded for the post (videos and images) is gone from the disk, except
\* a file whose unlink raised inside cleanup_files, and the record is
\* size-exceeded: exceeds_max_size, no valid media, no local files, no paths.
C15_OversizeAfterPreDownloadCleans ==
    (/\ dm_pc = "done"
     /\ UsePreDownload(dm_cfg)
     /\ dm_cfg.max_video_size_mb > 0
     /\ OversizeDownloaded # {})
        => /\ dm_loc.branch = "pre_download_reject"
           /\ \A k \in dm_loc.dl_ok :
                 CachePath(k) \in dm_disk
                    => CachePath(k) \in dm_loc.unlink_failed
           /\ dm_disk \subseteq dm_loc.unlink_failed
           /\ dm_md.exceeds_max_size = TRUE
           /\ dm_md.has_valid_media = FALSE
           /\ dm_md.use_local_files = FALSE
           /\ dm_md.file_paths = <<>>

\* a video and an image were both downloaded, the video is above the ceiling,
\* and both files have been unlinked
C15_Witness ==
    /\ dm_pc = "done"
    /\ dm_loc.branch = "pre_download_reject"
    /\ OversizeDownloaded # {}
    /\ \E k \in dm_loc.dl_ok : k > Len(dm_md.video_urls)
    /\ dm_loc.unlink_failed = {}
    /\ dm_disk = {}
    /\ dm_md.exceeds_max_size

\* every size measured for a video of the post: by the pre-probe, by the
\* second probe, or as the actual size of a downloaded file
MeasuredSizes ==
    ValidSizes(dm_loc.pre_probe) \cup ValidSizes(dm_loc.video_sizes)
       \cup {ItemSize(BuildMediaItems(dm_md.video_urls, <<>>)[k]) :
                k \in {j \in dm_loc.dl_ok : j <= Len(dm_md.video_urls)}}

\* C16: a record returned by process_metadata has exceeds_max_size true
\* exactly when the ceiling M is > 0 and some measured size of a video
\* (probed or actual) is strictly above M; a size equal to M is accepted and
\* with M = 0 no record is flagged.
C16_ExceedsIffMeasuredAboveCeiling ==
    dm_pc = "done" =>
        LET M == dm_cfg.max_video_size_mb
            flagged == /\ "exceeds_max_size" \in DOMAIN dm_md
                       /\ dm_md.exceeds_max_size = TRUE
        IN /\ flagged <=> (M > 0 /\ \E s \in MeasuredSizes : s > M)
           /\ M = 0 => ~flagged

\* a video measured at exactly M was downloaded and the record is accepted
C16_Witness ==
    /\ dm_pc = "done"
    /\ dm_cfg.max_video_size_mb > 0
    /\ dm_cfg.max_video_size_mb \in ValidSizes(dm_loc.pre_probe)
    /\ \E k \in dm_loc.dl_ok :
          /\ k <= Len(dm_md.video_urls)
          /\ ItemSize(BuildMediaItems(dm_md.video_urls, <<>>)[k])
                = dm_cfg.max_video_size_mb
    /\ dm_md.exceeds_max_size = FALSE
    /\ dm_md.has_valid_media

\* C23: a record returned by process_metadata for a post with at least one
\* URL group carries, on every return path, the fields video_count,
\* image_count, failed_video_count, failed_image_count, file_paths,
\* use_local_files, is_large_media and has_access_denied.
C23_AllFieldsOnEveryPath ==
    (/\ dm_pc = "done"
     /\ dm_md.video_urls # <<>> \/ dm_md.image_urls # <<>>)
        => {"video_count", "image_count", "failed_video_count",
            "failed_image_count", "file_paths", "use_local_files",
            "is_large_media", "has_access_denied"} \subseteq DOMAIN dm_md

(***************************************************************************)
(* Claims about the per-group fallback (checked under SpecFB)              *)
(***************************************************************************)

\* C4: the URLs of a group are attempted strictly in list order, a URL is
\* attempted only after every URL before it has failed (so none after the
\* first success), and the group is reported as failed only if every URL of
\* the group fails.
C4_FallbackOrder ==
    /\ \A k \in 1..Len(fb_attempts) : fb_attempts[k] = k
    /\ \A k \in 1..Len(fb_attempts) :
          \A j \in 1..(fb_attempts[k] - 1) : fb_group[j] # "ok"
    /\ fb_report.state = "failed" =>
          \A j \in 1..Len(fb_group) : fb_group[j] # "ok"

\* C24: when the URLs before G[i] failed and G[i] succeeded, the result
\* that download_one reports for the video group names G[i], the URL that
\* succeeded.
C24_ResultNamesSuccessfulUrl ==
    (fb_kind = "video" /\ fb_pc = "done" /\ fb_report.state = "ok")
        => /\ fb_attempts # <<>>
           /\ fb_report.url = fb_attempts[Len(fb_attempts)]

(***************************************************************************)
(* Claims about the range downloader (checked under SpecRange)             *)
(***************************************************************************)

\* C10: when the size is known, there is more than one chunk and every chunk
\* request succeeded (status 200 or 206), the file the range path writes is
\* byte-identical to the resource, i.e. to what the plain single-stream GET
\* writes: every byte exactly once, in order.
C10_RangeFileIdentical ==
    (r_pc = "done" /\ r_result = "range") =>
        /\ r_file.exists
        /\ r_file.bytes = Body(r_in.size)

\* C11: no chunk is requested twice; once a chunk has failed the range path
\* writes nothing of what it received, the plain streamer is called and the
\* call ends with the plain streamer's outcome; and on every path that does
\* not end with the range result (failed chunk, assembly error) no file
\* written by the range path is left, except one whose os.remove raised.
C11_FailedChunkFallsBack ==
    /\ \A i \in DOMAIN r_chunk : r_chunk[i].gets <= 1
    /\ (\E i \in DOMAIN r_chunk : r_chunk[i].st = "done" /\ ~r_chunk[i].ok)
          => /\ r_result # "range"
             /\ r_pc # "assemble"
             /\ r_file.by # "range"
             /\ r_pc = "done" =>
                   /\ r_plain >= 1
                   /\ r_result \in {"plain", "none", "raised"}
                   /\ r_result = "plain" =>
                         r_file.exists /\ r_file.bytes = Body(r_in.size)
    /\ (r_pc \in {"plain", "except", "done"} /\ r_result # "range")
          => (r_file.by = "range" => r_file.remove_failed)

\* C11 witness: one chunk failed while another delivered its bytes, and the
\* call ended with the complete file of the plain streamer.
C11_Witness ==
    /\ r_pc = "done"
    /\ \E i \in DOMAIN r_chunk : r_chunk[i].st = "done" /\ ~r_chunk[i].ok
    /\ \E i \in DOMAIN r_chunk : r_chunk[i].ok /\ r_chunk[i].data # <<>>
    /\ r_result = "plain"
    /\ r_file.by = "plain"
    /\ r_file.bytes = Body(r_in.size)

\* C32: at most max_concurrent chunk GETs of the video are in flight at
\* any moment, and a chunk whose GET ended, whatever the outcome (data, bad
\* status, exception), holds no permit any more: each ending frees exactly
\* one permit and nothing is in flight once the gather has returned.
C32_ChunkGetsBounded ==
    /\ [](Cardinality({i \in DOMAIN r_chunk : r_chunk[i].st = "inflight"})
            <= r_in.max_concurrent)
    /\ [](r_pc \in {"assemble", "plain", "except", "done"}
            => \A i \in DOMAIN r_chunk : r_chunk[i].st # "inflight")
    /\ [][\A i \in DOMAIN r_chunk :
             (r_chunk[i].st = "inflight" /\ r_chunk'[i].st = "done") =>
                 {j \in DOMAIN r_chunk' : r_chunk'[j].st = "inflight"}
                   = {j \in DOMAIN r_chunk : r_chunk[j].st = "inflight"} \ {i}]_vars

\* C32 witness: with one permit, a chunk has failed, the next one is in
\* flight on the permit it gave back and a third one is waiting.
C32_Witness ==
    /\ r_pc = "chunks"
    /\ r_in.max_concurrent = 1
    /\ \E i, j, k \in DOMAIN r_chunk :
          /\ r_chunk[i].st = "done" /\ ~r_chunk[i].ok
          /\ r_chunk[j].st = "inflight"
          /\ r_chunk[k].st = "waiting"

\* C33: for a known size S >= 1 and a chunk size C >= 1 the number of
\* chunks is ceil(S / C), and the inclusive ranges
\* [i*C, min(i*C + C - 1, S - 1)], i = 0..num_chunks-1, are non-empty,
\* contiguous from byte 0 to byte S-1, pairwise disjoint and cover every
\* byte of 0..S-1 (each byte lies in exactly one range).
C33_ChunkLayout ==
    r_pc # "idle" =>
        LET S == r_in.size
            C == r_in.chunk_size
            n == NumChunks(S, C)
            lo(i) == ChunkStart(i, C)
            hi(i) == ChunkEnd(i, C, S)
        IN /\ n * C >= S /\ (n - 1) * C < S
           /\ \A i \in 0..(n - 1) : lo(i) <= hi(i)
           /\ lo(0) = 0 /\ hi(n - 1) = S - 1
           /\ \A i \in 0..(n - 2) : lo(i + 1) = hi(i) + 1
           /\ \A b \in 0..(S - 1) :
                 Cardinality({i \in 0..(n - 1) : lo(i) <= b /\ b <= hi(i)}) = 1
           /\ r_pc = "chunks" => DOMAIN r_chunk = 0..(n - 1)

\* C33 witness: a size that is not a multiple of the chunk size, so that
\* the last chunk is shorter; every chunk was fetched with its own range.
C33_Witness ==
    /\ r_pc = "chunks"
    /\ r_in.size = 3 /\ r_in.chunk_size = 2
    /\ DOMAIN r_chunk = {0, 1}
    /\ r_chunk[0].ok /\ r_chunk[0].data = <<1, 2>>
    /\ r_chunk[1].ok /\ r_chunk[1].data = <<3>>

\* C34: in one call the plain streamer is invoked at most once, on every
\* path, an exception of the plain streamer itself included.
C34_PlainStreamerAtMostOnce ==
    r_plain <= 1

(***************************************************************************)
(* Claims about the large-media threshold (checked under SpecCfg)          *)
(***************************************************************************)

\* C17: for every configured numeric value v, with or without validation,
\* ConfigManager, DownloadManager and BaseVideoParser each store a threshold
\* inside [0, MAX]: 0 when v <= 0, min(v, MAX) otherwise, and no
\* construction ends in an error.
C17_ThresholdClamped ==
    LET MAX == MAX_LARGE_MEDIA_THRESHOLD_MB
        clamp(x) == IF x <= 0 THEN 0 ELSE IF x < MAX THEN x ELSE MAX
    IN \A c \in {"cm", "dm", "bp"} :
          cf_out[c].st # "unset" =>
              /\ cf_out[c].st = "stored"
              /\ ~cf_out[c].val.nan
              /\ cf_out[c].val.x >= 0
              /\ cf_out[c].val.x <= MAX
              /\ ~cf_in.v.nan => cf_out[c].val.x = clamp(cf_in.v.x)

(***************************************************************************)
(* Claims about detect_media_type (checked under SpecUrl)                  *)
(***************************************************************************)

\* C18: detect_media_type depends only on the lowercased text of the URL
\* before its first '?' or '#': a URL and that text get the same type,
\* whatever the query string and the fragment, and a second call on the
\* same URL returns the same type.
C18_TypeDependsOnPathOnly ==
    /\ (u_out.first # "none" /\ u_out.path # "none")
          => u_out.first = u_out.path
    /\ u_out.again # "none" => u_out.again = u_out.first

(***************************************************************************)
(* Claims about the scheduling of the downloads (checked under SpecPar)    *)
(***************************************************************************)

\* C19: at any moment at most max_concurrent_downloads media items of one
\* process_metadata call are being downloaded, in every branch.
C19_BoundedParallelism ==
    Cardinality(Running(p_st)) <= p_cfg.max_concurrent

C21_OneRecordPerInput ==
    /\ ml_pc = "returned" =>
          /\ Len(ml_out) = Len(ml_in)
          /\ \A i \in 1..Len(ml_in) :
                /\ ml_out[i].src = i
                /\ ml_out[i].error <=> ml_in[i] = "raise"
                /\ ml_out[i].processed <=> ml_in[i] = "ok"
    /\ \A i \in 1..Len(ml_out) : ml_out[i].src = i

\* a record that raised between two records that were processed
C21_Witness ==
    /\ ml_pc = "returned"
    /\ Len(ml_in) = 3
    /\ ml_in[2] = "raise" /\ ml_out[2].error
    /\ ml_out[1].processed /\ ml_out[3].processed

(***************************************************************************)
(* Claims about the validation of the configuration (checked under SpecVC) *)
(***************************************************************************)

\* C22: construction with validation raises ConfigurationError exactly when
\* max_media_size_mb or large_media_threshold_mb is not a number or is
\* negative, max_concurrent_downloads is not an integer or is < 1, a proxy
\* flag is set and twitter_proxy_url is empty, or a proxy flag is set and
\* twitter_proxy_url has none of the three schemes; every other
\* configuration is accepted.
C22_RaisesExactlyWhenInvalid ==
    vc_result \in {"raised", "parsed"} =>
        LET flag == \/ vc_config.twitter_use_image_proxy
                    \/ vc_config.twitter_use_video_proxy
            invalid ==
                \/ vc_config.max_media_size_mb \in {"str", "neg"}
                \/ vc_config.large_media_threshold_mb \in {"str", "neg"}
                \/ vc_config.max_concurrent_downloads
                      \in {"str", "float", "zero"}
                \/ flag /\ vc_config.twitter_proxy_url = ""
                \/ flag /\ vc_config.twitter_proxy_url
                              \notin {"http://", "https://", "socks5://"}
        IN vc_result = "raised" <=> invalid

(***************************************************************************)
(* Claims about the platform parsers (checked under SpecPR)                *)
(***************************************************************************)

\* C25: for every platform parser, parse(url) either raises or returns a
\* record that contains both lists video_urls and image_urls; it never
\* returns None or a record lacking one of the two lists.
C25_ParseRaisesOrReturnsBothLists ==
    pr_out.kind \in {"raise", "none", "record"} =>
        /\ pr_out.kind # "none"
        /\ pr_out.kind = "record"
              => {"video_urls", "image_urls"} \subseteq pr_out.keys

(***************************************************************************)
(* Claims about concurrent requests on the cache directory                 *)
(***************************************************************************)
\* C26: a request that obtained a cache file path (written by itself or
\* reused) finds the file present and completely written until it has
\* delivered it: another request's overwrite or unlink never removes or
\* truncates it first.
C26_PathHolderFindsFileComplete ==
    \A r \in Requests :
        /\ cc_pc[r] \in {"has_path", "node_built"} => cc_file = "complete"
        /\ cc_sent[r] \in {"nothing", "complete"}

(***************************************************************************)
(* Claims about _generate_media_id (checked under SpecGM)                  *)
(***************************************************************************)
\* C27: the media id of a URL is the number of a numeric segment of its
\* path when the path has one, and the first 8 hex characters of the MD5
\* of the URL otherwise.
C27_NumericSegmentElseMd5 ==
    LET url == gm_url
        IsSegment(a, b) ==
            /\ a <= b
            /\ a = 1 \/ url[a - 1] = "/"
            /\ b = Len(url) \/ url[b + 1] = "/"
            /\ \A j \in a..b : url[j] # "/"
        numeric == {SubSeq(url, a, b) : <<a, b>> \in
                      {ab \in (1..Len(url)) \X (1..Len(url)) :
                          /\ IsSegment(ab[1], ab[2])
                          /\ \A j \in ab[1]..ab[2] : url[j] \in Digits}}
    IN gm_id # [unset |-> TRUE] /\ gm_id # [idle |-> TRUE] =>
          IF numeric = {} THEN gm_id = [md5_of |-> url]
          ELSE \E n \in numeric : gm_id = [number |-> n]

(***************************************************************************)
(* Claims about download_image_to_cache (checked under SpecIC)             *)
(***************************************************************************)
\* C28: when the downloaded file's extension is outside .jpg/.jpeg/.png
\* the transcoder is invoked; when it succeeds the call returns the .png
\* path and the original is gone (unless os.remove raised); when it is
\* absent, times out or fails the call returns the original path and the
\* original file is kept.
C28_FormatNormalization ==
    ("ret" \in DOMAIN ic_out /\ ic_in.file_path \notin {"None", ".jpg", ".jpeg", ".png"}) =>
        /\ ic_out.invoked
        /\ ic_out.converted =>
              /\ ic_out.ret = ".png"
              /\ ic_in.file_path \notin ic_fs \/ ~ic_in.remove_ok
        /\ ~ic_out.converted =>
              /\ ic_out.ret = ic_in.file_path
              /\ ic_in.file_path \in ic_fs

\* a .webp file was transcoded at the second attempt and removed
C28_Witness ==
    /\ "ret" \in DOMAIN ic_out
    /\ ic_in.file_path = ".webp"
    /\ ic_in.first = "rc_nonzero"
    /\ ic_out.converted
    /\ ic_out.ret = ".png"
    /\ ic_fs = {".png"}

(***************************************************************************)
(* Claims about the temp files of an image download (checked under SpecTF) *)
(***************************************************************************)
\* C29: when the download returns, every temp file it created has been
\* promoted into the cache or unlinked (an unlink that raised apart), on
\* every exit path.
C29_NoTempFileLeftBehind ==
    tf_pc = "returned" =>
        \A f \in tf_created :
            f \in tf_promoted \/ f \notin tf_disk \/ f \in tf_unlink_raised

(***************************************************************************)
(* Claims about ParserFactory.create_parsers (checked under SpecPF)        *)
(***************************************************************************)
\* C30: create_parsers returns, in registration order, one instance for
\* every registered parser whose enable_<name> setting is absent or true
\* and none for one whose setting is false; it raises ValueError when
\* that list would be empty.
C30_OneInstancePerEnabledParser ==
    LET Enabled(name) == pf_in.enable[name] \in {"absent", "true"}
    IN ("unset" \notin DOMAIN pf_out /\ "idle" \notin DOMAIN pf_out) =>
          LET expected == SelectSeq([name \in DOMAIN pf_in.enable |-> name], Enabled)
          IN IF expected = <<>> THEN pf_out = [raises |-> "ValueError"]
             ELSE pf_out = [parsers |-> expected]

(***************************************************************************)
(* Claims about extract_links (checked under SpecEL)                       *)
(***************************************************************************)
\* C31: the list extract_links returns holds no URL twice, for every
\* parser and every text.
C31_ExtractLinksDeduplicated ==
    "links" \in DOMAIN el_out =>
        \A i, j \in DOMAIN el_out.links :
            el_out.links[i] = el_out.links[j] => i = j

(***************************************************************************)
(* Claims about the files of a failed parse (checked under SpecPG)         *)
(***************************************************************************)
\* C35: when parse ends without a result (None, an exception, a
\* cancellation), every file the call downloaded has been unlinked (an
\* unlink that raised apart).
C35_FailedParseLeavesNoFile ==
    (pg_pc = "done" /\ pg_result \in {"None", "raised"}) =>
        \A f \in pg_created : f \notin pg_disk \/ f \in pg_unlink_raised

(***************************************************************************)
(* Claims about termination (checked under SpecTD, which is fair)          *)
(***************************************************************************)
\* C37: every gathered download eventually returns, with one result per
\* item, whatever the number of items and the sizes (>= 1) of the download
\* semaphore and of the parser's semaphore held around the download.
C37_DownloadsTerminate ==
    <>[](\A c \in ParseCalls :
            /\ td_pc[c] = "returned"
            /\ td_results[c] = 1..td_in.items
            /\ td_permits[c] = 0)

\* C37 witness: with one permit each, a parse call holds the parser's
\* semaphore while the other waits for it, one of its tasks is downloading
\* and the next waits for the download semaphore.
C37_Witness ==
    /\ td_in.max_concurrent = 1 /\ td_in.parser_permits = 1
    /\ td_pc[1] = "gathering" /\ td_pc[2] = "waiting"
    /\ \E j, k \in DOMAIN td_task[1] :
          td_task[1][j] = "running" /\ td_task[1][k] = "waiting"

(***************************************************************************)
(* Claims about ParserRegistry (checked under SpecReg)                     *)
(***************************************************************************)
\* C38: after any sequence of register, unregister and clear calls, and
\* whatever the callers do to the maps get_all returned, get, is_registered
\* and get_all agree with the map in which register puts (replacing),
\* unregister deletes if present and clear empties.
C38_RegistryIsTheMap ==
    LET registry == Instance(reg_instance, reg_registry)
    IN /\ \A name \in ParserNames :
             /\ IsRegistered(registry, name)
                   <=> \E p \in reg_map : p[1] = name
             /\ \A info \in ParserInfos :
                   Get(registry, name) = info <=> <<name, info>> \in reg_map
             /\ Get(registry, name) = [none |-> TRUE]
                   <=> ~ \E p \in reg_map : p[1] = name
       /\ {<<name, registry[name]>> :
              name \in {n \in ParserNames : registry[n] # [absent |-> TRUE]}} = reg_map
       /\ \A p, q \in reg_map : p[1] = q[1] => p = q

\* C38 witness: both names are registered, and a caller has emptied the
\* map that get_all gave it.
C38_Witness ==
    /\ reg_got.taken
    /\ reg_got.dict = EmptyRegistry
    /\ <<1, [parser_class |-> "B", requires_proxy |-> TRUE]>> \in reg_map
    /\ Cardinality(reg_map) = 2

====
